---------------------------- MODULE Spec2Model ----------------------------
(***************************************************************************)
(* A model of the log-line classification and statistics engine of         *)
(* postfix-logsums: PostfixLogParser.eval_line and the handlers it calls,  *)
(* the PostfixLogSums result structure and the MessageStats records        *)
(* (src/postfix_logsums/__init__.py), and the statistics classes of        *)
(* src/postfix_logsums/stats.py.                                           *)
(*                                                                         *)
(* The text of a log line is represented by the parts the parser's         *)
(* patterns cut out of it (time stamp fields, program, subsystem, pid,     *)
(* first token, and the fields of the message body).  A pattern is an      *)
(* operator on that representation.  A Python dict is a function with a    *)
(* finite domain; the value None is the string NoneVal.                    *)
(***************************************************************************)
EXTENDS Integers, Sequences, FiniteSets, TLC

VARIABLES
    results,        \* PostfixLogParser.results, the PostfixLogSums aggregator
    parser,         \* the other attributes of the PostfixLogParser object
    raised,         \* the exception that left eval_line ("" while none did)
    log_warnings,   \* number of LOG.warning diagnostics emitted so far
    fed,            \* the lines passed to eval_line so far, oldest first
    stats           \* two statistics objects used on their own, see InitStats

vars == <<results, parser, raised, log_warnings, fed, stats>>

(***************************************************************************)
(* Bounds of the model.                                                    *)
(***************************************************************************)
MaxLines == 4       \* lines fed to eval_line in one behaviour
MaxFiles == 2       \* log files started in one behaviour
MaxCalls == 4       \* calls made on the statistics objects in one behaviour

(***************************************************************************)
(* Program constants.                                                      *)
(***************************************************************************)
HOURS_PER_DAY == 24
DEFAULT_MAX_TRIM_LENGTH == 66

NoneVal == "<None>"

(***************************************************************************)
(* dict helpers                                                            *)
(***************************************************************************)
EmptyDict == <<>>
Has(d, k) == k \in DOMAIN d
Put(d, k, v) == [x \in (DOMAIN d) \cup {k} |-> IF x = k THEN v ELSE d[x]]
Del(d, k) == [x \in (DOMAIN d) \ {k} |-> d[x]]
Get(d, k, dflt) == IF k \in DOMAIN d THEN d[k] ELSE dflt

\* int(x) for a number given as the fraction n/d (d > 0): truncation towards zero
Trunc(n, d) == IF n >= 0 THEN n \div d ELSE -((-n) \div d)


(***************************************************************************)
(* Log lines.  A line is the record of the parts the patterns of           *)
(* PostfixLogParser.__init__ can cut out of its text:                      *)
(*   eol       the text at the end of the line: "LF" as read by readline,  *)
(*             "" as produced by splitlines                                *)
(*   stamp     the shape of its head: "trad" (Mon DD HH:MM:SS host),       *)
(*             "rfc" (YYYY-MM-DD[T ]HH:MM:SS[.f](Z|+HH:MM) host), "none"   *)
(*   month_str, year .. second   the digits (and month name) of the head   *)
(*   tz        "Z", or "off" with tz_hours = int of the signed hours       *)
(*             group and tz_mins = int of the minutes group                *)
(*   msg       the text after the host name, see Msg                       *)
(***************************************************************************)
Line(eol, stamp, month_str, ymd, hms, tz, msg) ==
    [eol |-> eol, stamp |-> stamp, month_str |-> month_str,
     year |-> ymd[1], month |-> ymd[2], day |-> ymd[3],
     hour |-> hms[1], minute |-> hms[2], second |-> hms[3],
     tz |-> tz[1], tz_hours |-> tz[2], tz_mins |-> tz[3], msg |-> msg]

TzZ == <<"Z", 0, 0>>
TzOff(h, m) == <<"off", h, m>>

(***************************************************************************)
(* The message of a line:                                                  *)
(*   prog   the program name at its start ("postfix", "postfix-script",    *)
(*          "amavis", ...)                                                 *)
(*   cmd    the subsystem after "prog/" ("" when the message has no such   *)
(*          part), pid the number in "[pid]"                               *)
(*   qid    the first token after ": " (a queue ID or a keyword)           *)
(*   body   what follows, see Body                                         *)
(***************************************************************************)
Msg(prog, cmd, pid, qid, body) ==
    [prog |-> prog, cmd |-> cmd, pid |-> pid, qid |-> qid, body |-> body]

\* A host token "name[ip]", "name/ip", "name(ip)" or a bare text: the labels of
\* the name, the bracket character after it ("" when there is none), the text
\* inside, and whether that text is a dotted quad.
Host(labels, br, ip, quad) == [labels |-> labels, br |-> br, ip |-> ip, quad |-> quad]
NoHost == Host(<<>>, "", "", FALSE)

(***************************************************************************)
(* The body of a message.  kind names the phrase the body holds:           *)
(*   "cleanup"    "<subtype>: <part> <cmd_msg><tail>", tail being a        *)
(*                "; from=<...>..." end of the text or ""                  *)
(*   "client"     "client=<host><after>", after being the text that        *)
(*                follows the host token: "" (end of the line), ", " and   *)
(*                more, or ",/" and more                                   *)
(*   "reject"     "<subtype>: <rtype> from <host>: <rest>" (the keyword is *)
(*                the token itself when qid = subtype)                     *)
(*   "connect", "disconnect"   "connect from <host>"                       *)
(*   "fromsize"   "from=<sender>, size=<size>"                             *)
(*   "relay"      "to=<to>, relay=.., delay=<delay>, status=<status><rest>"*)
(*   "text"       any other text                                           *)
(***************************************************************************)
Body(kind) ==
    [kind |-> kind, subtype |-> "", part |-> "", cmd_msg |-> "", tail |-> "",
     host |-> NoHost, after |-> "",
     rtype |-> "", rej_ok |-> FALSE, reason |-> "", bucket |-> 0, rej_to |-> "",
     rej_sender |-> "", src |-> "", to |-> [local |-> "", at |-> FALSE, labels |-> <<>>],
     sender |-> [local |-> "", at |-> FALSE, labels |-> <<>>],
     text |-> "", size |-> 0, relay |-> "", delay |-> <<0, 1>>, status |-> "",
     forwarded |-> FALSE]

CleanupBody(subtype, part, cmd_msg, tail) ==
    [Body("cleanup") EXCEPT !.subtype = subtype, !.part = part,
                            !.cmd_msg = cmd_msg, !.tail = tail]
ClientBody(host, after) == [Body("client") EXCEPT !.host = host, !.after = after]
ConnectBody(kind, host) == [Body(kind) EXCEPT !.host = host]
TextBody(text) == [Body("text") EXCEPT !.text = text]
FromSizeBody(sender, size) == [Body("fromsize") EXCEPT !.sender = sender, !.size = size]
RelayBody(to, relay, delay, status, forwarded) ==
    [Body("relay") EXCEPT !.to = to, !.relay = relay, !.delay = delay,
                          !.status = status, !.forwarded = forwarded]
\* A reject phrase: its type word, whether re_reject matches the message, the
\* reason the substitutions of _eval_reject_msg leave, the number of the
\* re_rej_smtp_reason pattern that reason matches first (0: none), the
\* recipient and sender texts (rej_to, rej_sender), and the host after "from".
RejectBody(subtype, rtype, rej_ok, reason, bucket, to, sender, host) ==
    [Body("reject") EXCEPT !.subtype = subtype, !.rtype = rtype, !.rej_ok = rej_ok,
                           !.reason = reason, !.bucket = bucket, !.rej_to = to,
                           !.rej_sender = sender, !.host = host]

(***************************************************************************)
(* Time stamps: a datetime.datetime with a fixed-offset tzinfo.            *)
(***************************************************************************)
DateTime(y, mo, d, h, mi, s, off) ==
    [year |-> y, month |-> mo, day |-> d, hour |-> h, minute |-> mi,
     second |-> s, utcoffset |-> off]

IsLeap(y) == y % 4 = 0 /\ (y % 100 # 0 \/ y % 400 = 0)
DaysInMonth(y, m) ==
    IF m = 2 THEN (IF IsLeap(y) THEN 29 ELSE 28)
    ELSE IF m \in {4, 6, 9, 11} THEN 30 ELSE 31

RECURSIVE DaysBeforeMonth(_, _)
DaysBeforeMonth(y, m) ==
    IF m <= 1 THEN 0 ELSE DaysBeforeMonth(y, m - 1) + DaysInMonth(y, m - 1)

\* the proleptic Gregorian ordinal of a date (1 for 0001-01-01)
Ordinal(y, m, d) ==
    LET p == y - 1
    IN  p * 365 + p \div 4 - p \div 100 + p \div 400 + DaysBeforeMonth(y, m) + d

\* datetime(...) raises ValueError for fields out of range
ValidDateTime(y, mo, d, h, mi, s) ==
    /\ y \in 1..9999 /\ mo \in 1..12 /\ d \in 1..DaysInMonth(y, mo)
    /\ h \in 0..23 /\ mi \in 0..59 /\ s \in 0..59

\* datetime.timezone(delta) raises ValueError unless -24h < delta < 24h
ValidOffset(off) == -86400 < off /\ off < 86400

\* (a - b).total_seconds() of two aware datetimes: the difference of the instants
total_seconds(a, b) ==
    (Ordinal(a.year, a.month, a.day) - Ordinal(b.year, b.month, b.day)) * 86400
    + ((a.hour - b.hour) * 3600 + (a.minute - b.minute) * 60 + (a.second - b.second))
    - (a.utcoffset - b.utcoffset)

\* ts.date(): the calendar date of the wall clock
date(ts) == <<ts.year, ts.month, ts.day>>

\* ts.strftime('%Y-%m-%d'): the zero-padded digits YYYY-MM-DD, read as one number
strftime_ymd(ts) == ts.year * 10000 + ts.month * 100 + ts.day

month_nums ==
    [m \in {"Jan", "Feb", "Mar", "Apr", "May", "Jun", "Jul", "Aug", "Sep", "Oct",
            "Nov", "Dec"} |->
        CASE m = "Jan" -> 1 [] m = "Feb" -> 2 [] m = "Mar" -> 3 [] m = "Apr" -> 4
          [] m = "May" -> 5 [] m = "Jun" -> 6 [] m = "Jul" -> 7 [] m = "Aug" -> 8
          [] m = "Sep" -> 9 [] m = "Oct" -> 10 [] m = "Nov" -> 11 [] m = "Dec" -> 12]

(***************************************************************************)
(* The extractors.  Each returns a record: exc the exception it raises     *)
(* ("" when none), ok whether a match was found (None is returned          *)
(* otherwise), and the values extracted.                                   *)
(***************************************************************************)
NoMatch == [exc |-> "", ok |-> FALSE]
Raise(e) == [exc |-> e, ok |-> FALSE]

\* The characters found right after a position where '$' matches: '$' matches
\* at the end of the text, where no character follows, and before a newline
\* that ends the text.
AfterDollar(line) == IF line.eol = "LF" THEN {"LF"} ELSE {}

\* re_date: the traditional head, the message up to '$', then a literal '/'
re_date_match(line) == line.stamp = "trad" /\ "/" \in AfterDollar(line)

\* re_date_rfc3339: the RFC3339 head and the message up to '$'
re_date_rfc3339_match(line) == line.stamp = "rfc"

_eval_msg_ts_traditional(p, line) ==
    IF ~re_date_match(line) THEN NoMatch
    ELSE IF line.month_str \notin DOMAIN month_nums THEN Raise("KeyError")
    ELSE LET month == month_nums[line.month_str]
             year == IF month > p.this_month THEN p.this_year - 1 ELSE p.this_year
         IN  IF ~ValidDateTime(year, month, line.day, line.hour, line.minute,
                               line.second)
             THEN Raise("ValueError")
             ELSE [exc |-> "", ok |-> TRUE,
                   ts |-> DateTime(year, month, line.day, line.hour, line.minute,
                                   line.second, 0),
                   msg |-> line.msg]

_eval_msg_ts_rfc3339(p, line) ==
    IF ~re_date_rfc3339_match(line) THEN NoMatch
    ELSE LET delta == line.tz_hours * 3600 + line.tz_mins * 60
             off == IF line.tz = "off" THEN delta ELSE 0
         IN  IF line.tz = "off" /\ ~ValidOffset(delta) THEN Raise("ValueError")
             ELSE IF ~ValidDateTime(line.year, line.month, line.day, line.hour,
                                    line.minute, line.second)
             THEN Raise("ValueError")
             ELSE [exc |-> "", ok |-> TRUE,
                   ts |-> DateTime(line.year, line.month, line.day, line.hour,
                                   line.minute, line.second, off),
                   msg |-> line.msg]

_eval_msg_ts(p, line) ==
    LET result == _eval_msg_ts_traditional(p, line)
    IN  IF result.exc # "" \/ result.ok THEN result
        ELSE _eval_msg_ts_rfc3339(p, line)

\* re_pf_command: "postfix/<cmd>[pid]: <qid>" (or the configured syslog name)
re_pf_command_match(p, msg) ==
    msg.prog \in {"postfix", p.syslog_name} /\ msg.cmd # "" /\ msg.qid # ""

\* re_pf_script: "postfix: <qid>" or "postfix-script[pid]: <qid>"
re_pf_script_match(msg) ==
    msg.prog \in {"postfix", "postfix-script"} /\ msg.cmd = "" /\ msg.qid # ""

_eval_pf_command(p, msg) ==
    IF re_pf_command_match(p, msg) THEN [ok |-> TRUE, cmd |-> msg.cmd, qid |-> msg.qid]
    ELSE IF re_pf_script_match(msg) THEN [ok |-> TRUE, cmd |-> msg.prog, qid |-> msg.qid]
    ELSE [ok |-> FALSE, cmd |-> "", qid |-> ""]

\* re_amavis: "amavis[pid]: " at the start of the message
re_amavis_match(msg) == msg.prog = "amavis" /\ msg.cmd = ""

\* the date pre-filter of eval_line (the `day` option): re_date_filter on the
\* traditional head, re_date_filter_rfc3339 on the RFC3339 head
date_filter_match(p, line) ==
    \/ line.stamp = "trad" /\ Has(month_nums, line.month_str)
       /\ <<month_nums[line.month_str], line.day>> = <<p.used_date[2], p.used_date[3]>>
    \/ line.stamp = "rfc" /\ <<line.year, line.month, line.day>> = p.used_date

(***************************************************************************)
(* Text helpers.                                                           *)
(***************************************************************************)
\* str.lower() on the names the lines of this model use
Lower(s) ==
    CASE s = "Example" -> "example"
      [] s = "COM" -> "com"
      [] s = "MX" -> "mx"
      [] s = "Bob" -> "bob"
      [] OTHER -> s

RECURSIVE LowerAll(_)
LowerAll(labels) ==
    IF labels = <<>> THEN <<>> ELSE <<Lower(Head(labels))>> \o LowerAll(Tail(labels))

RECURSIVE Join(_)
Join(labels) ==
    IF labels = <<>> THEN ""
    ELSE IF Len(labels) = 1 THEN labels[1]
    ELSE labels[1] \o "." \o Join(Tail(labels))

\* An e-mail address: the text before the first "@", whether it has an "@", and
\* the labels of the text after it.
Addr(local, at, labels) == [local |-> local, at |-> at, labels |-> labels]
AddrStr(a) == IF a.at THEN a.local \o "@" \o Join(a.labels) ELSE a.local
NoAddr == Addr("", FALSE, <<>>)

\* PostfixLogParser.string_trimmer with max_len=None
string_trimmer(message, do_not_trim) ==
    LET ml == DEFAULT_MAX_TRIM_LENGTH - 3
    IN  IF do_not_trim THEN message
        ELSE IF Len(message) > ml THEN SubSeq(message, 1, ml) \o "..."
        ELSE message

(***************************************************************************)
(* gimme_domain                                                            *)
(***************************************************************************)
\* re_gdom1: name[d.d.d.d]
re_gdom1_match(h) == h.labels # <<>> /\ h.br = "[" /\ h.quad
\* re_gdom2: name/ip, the ip made of hex digits, dots and colons
re_gdom2_match(h) == h.labels # <<>> /\ h.br = "/" /\ h.quad
\* re_gdom3: name, one of "[", "(", "/", and the text up to the end
re_gdom3_match(h) == h.labels # <<>> /\ h.br \in {"[", "(", "/"} /\ h.ip # ""

\* re_gdom4.sub(r'\1.\2', domain): '(.*).(label).(3 chars | 2-3 chars.2 chars)'
re_gdom4_sub(labels) ==
    LET n == Len(labels)
    IN  IF n >= 3 /\ Len(labels[n]) = 3 THEN SubSeq(labels, 1, n - 1)
        ELSE IF n >= 4 /\ Len(labels[n]) = 2 /\ Len(labels[n - 1]) \in {2, 3}
        THEN SubSeq(labels, 1, n - 2)
        ELSE labels

gimme_domain(h) ==
    IF ~(re_gdom1_match(h) \/ re_gdom2_match(h) \/ re_gdom3_match(h)) THEN NoneVal
    ELSE IF Join(h.labels) = "unknown" THEN h.ip
    ELSE Join(LowerAll(re_gdom4_sub(h.labels)))

(***************************************************************************)
(* MessageStats of __init__.py: five counters behind property setters.     *)
(* A value is passed as the fraction n/d, so that a float can be given.    *)
(***************************************************************************)
MessageStats == [count |-> 0, size |-> 0, defers |-> 0, delay_avg |-> 0, delay_max |-> 0]

\* a setter without the `if v >= 0` test
ms_setter_unchecked(ms, key, n, d) == [ms EXCEPT ![key] = Trunc(n, d)]

\* whether the setter refuses the value (and calls LOG.warning)
ms_refuses(n, d) == Trunc(n, d) < 0

\* the object after `ms.<key> = n/d`
ms_setter(ms, key, n, d) ==
    IF ms_refuses(n, d) THEN ms ELSE [ms EXCEPT ![key] = Trunc(n, d)]

(***************************************************************************)
(* PostfixLogSums.reset(): the state of a fresh result structure.          *)
(***************************************************************************)
Hours == 0 .. HOURS_PER_DAY - 1

reset ==
    [amavis_msgs |-> 0, lines_total |-> 0, lines_considered |-> 0,
     days_counted |-> 0, messages_received_total |-> 0,
     files_index |-> 0,              \* None; else the 1-based place in files
     files |-> <<>>,
     messages_per_day |-> EmptyDict, smtpd_per_day |-> EmptyDict,
     smtpd_per_domain |-> EmptyDict,
     connections_total |-> 0, connections_time |-> 0,
     received_messages_per_hour |-> [h \in Hours |-> 0],
     rejected_messages_per_hour |-> [h \in Hours |-> 0],
     delivered_messages_per_hour |-> [h \in Hours |-> 0],
     defered_messages_per_hour |-> [h \in Hours |-> 0],
     bounced_messages_per_hour |-> [h \in Hours |-> 0],
     smtpd_messages_per_hour |-> [h \in Hours |-> <<0, 0, 0>>],
     messages |-> [discard |-> 0, hold |-> 0, master |-> 0, rejected |-> 0,
                   warning |-> 0],
     rejects |-> [cleanup |-> EmptyDict], warns |-> [cleanup |-> EmptyDict],
     holds |-> [cleanup |-> EmptyDict], discards |-> [cleanup |-> EmptyDict],
     warnings |-> EmptyDict, fatals |-> EmptyDict, panics |-> EmptyDict,
     master_msgs |-> EmptyDict, message_details |-> EmptyDict,
     sender_domain_count |-> 0, sending_domain_data |-> EmptyDict,
     sending_user_count |-> 0, sending_user_data |-> EmptyDict,
     received_size |-> 0, messages_forwarded |-> 0,
     rcpt_domain |-> EmptyDict, rcpt_domain_count |-> 0,
     rcpt_user |-> EmptyDict, rcpt_user_count |-> 0]

(***************************************************************************)
(* PostfixLogParser.__init__: the parser after construction.  o holds the  *)
(* options given (the other options are at their defaults), today the date *)
(* of the class attribute `today`.  re_date_filter tells whether the `day` *)
(* filter is set, used_date is its date.  None is NoDate for last_date and *)
(* NoMsg for _cur_msg.                                                     *)
(***************************************************************************)
NoTs == DateTime(0, 0, 0, 0, 0, 0, 0)
NoDate == <<>>
NoMsg == Msg("", "", 0, "", Body(""))

DefaultOptions ==
    [zero_fill |-> FALSE, detail_reject |-> TRUE, detail_smtpd_warning |-> TRUE,
     smtpd_stats |-> FALSE, extended |-> FALSE, ignore_case |-> FALSE]

__init__(today, o) ==
    [this_year |-> today[1], this_month |-> today[2],
     syslog_name |-> "postfix", re_date_filter |-> FALSE, used_date |-> today,
     zero_fill |-> o.zero_fill, detail_verbose_msg |-> FALSE,
     detail_reject |-> o.detail_reject,
     detail_smtpd_warning |-> o.detail_smtpd_warning,
     ignore_case |-> o.ignore_case, extended |-> o.extended,
     rej_add_from |-> FALSE, smtpd_stats |-> o.smtpd_stats, verbose |-> 0,
     has_cur_ts |-> FALSE, _cur_ts |-> NoTs, _cur_msg |-> NoMsg,
     _cur_pf_command |-> NoneVal, _cur_qid |-> NoneVal,
     last_date |-> NoDate,
     _rcvd_msgs_qid |-> EmptyDict, _connection_times |-> EmptyDict,
     _message_size |-> EmptyDict]

(***************************************************************************)
(* The handlers.  A handler takes and returns the record                   *)
(*   [results, parser, raised, log_warnings]                               *)
(* of the state it works on; a handler that raises returns the state as    *)
(* the statements before the raise left it, with raised set.               *)
(***************************************************************************)
Fail(S, e) == [S EXCEPT !.raised = e]

\* d[k] += n for a dict of numbers, the entry created at 0 when missing
Incr(d, k, n) == Put(d, k, Get(d, k, 0) + n)
\* d[a][b] += 1 for a dict of dicts of counts, the entries created when missing
Incr2(d, a, b) == Put(d, a, Incr(Get(d, a, EmptyDict), b, 1))
\* d[a][b][c] += 1, likewise
Incr3(d, a, b, c) == Put(d, a, Incr2(Get(d, a, EmptyDict), b, c))

\* start_logfile without the move of _files_index to the new entry
start_logfile_index_kept(r, logfile) ==
    [r EXCEPT !.files = Append(@, [file |-> logfile, lines_total |-> 0,
                                    lines_considered |-> 0]),
              !.files_index = IF @ = 0 THEN 1 ELSE @]
start_logfile(r, logfile) ==
    [r EXCEPT !.files = Append(@, [file |-> logfile, lines_total |-> 0,
                                    lines_considered |-> 0]),
              !.files_index = Len(r.files) + 1]

\* incr_lines_total without the counter of the current file
incr_lines_total_global_only(r) == [r EXCEPT !.lines_total = @ + 1]

incr_lines_total(r) ==
    IF r.files_index # 0
    THEN [r EXCEPT !.lines_total = @ + 1, !.files[r.files_index].lines_total = @ + 1]
    ELSE [r EXCEPT !.lines_total = @ + 1]

incr_lines_considered(r) ==
    IF r.files_index # 0
    THEN [r EXCEPT !.lines_considered = @ + 1,
                   !.files[r.files_index].lines_considered = @ + 1]
    ELSE [r EXCEPT !.lines_considered = @ + 1]

\* cur_date_fmt(): the day of the current line (None, here 0, without one)
cur_date_fmt(p) == IF p.has_cur_ts THEN strftime_ymd(p._cur_ts) ELSE 0

\* the per-day list [0, 0, 0, 0, 0]; its Python index i is the place i + 1 here
NewDay == <<0, 0, 0, 0, 0>>

(***************************************************************************)
(* smtpd: client announcement                                              *)
(***************************************************************************)
\* _cur_msg is stripped and holds no newline: no character follows its end
MsgAfterDollar == {}

\* re_smtpd_client: "[pid]: <qid>: client=" the host, then "," or '$', then "/"
re_smtpd_client_match(msg) ==
    /\ msg.body.kind = "client" /\ msg.pid # 0
    /\ \/ msg.body.after = ",/"
       \/ msg.body.after = "" /\ "/" \in MsgAfterDollar

_incr_smtpd_client_counters(S, client) ==
    LET hour == S.parser._cur_ts.hour
        dt_fmt == cur_date_fmt(S.parser)
        S1 == [S EXCEPT !.results.received_messages_per_hour[hour] = @ + 1]
    IN  IF ~Has(S1.results.messages_per_day, dt_fmt) THEN Fail(S1, "KeyError")
        ELSE [S1 EXCEPT !.results.messages_per_day[dt_fmt][5] = @ + 1,
                        !.results.messages_received_total = @ + 1,
                        !.parser._rcvd_msgs_qid =
                            Put(@, S.parser._cur_qid, gimme_domain(client))]

(***************************************************************************)
(* rejects                                                                 *)
(***************************************************************************)
_incr_reject_counter(S, rtype, reason, rdata) ==
    [S EXCEPT !.results.rejects = Incr3(@, rtype, reason, rdata)]

\* _eval_reject_msg and the bucket tests of proc_smtpd_reject: the detail
\* entry the reject phrase b is counted under, <<>> when it is counted nowhere
reject_detail(p, b) ==
    LET to == IF p.ignore_case THEN Lower(b.rej_to) ELSE b.rej_to
        sender == IF p.ignore_case THEN Lower(b.rej_sender) ELSE b.rej_sender
        add_from(data) == IF p.rej_add_from THEN data \o "  (" \o sender \o ")" ELSE data
        dom == gimme_domain(Host(<<sender>>, "", "", FALSE))
    IN  IF ~b.rej_ok THEN <<>>
        ELSE IF b.bucket = 1 THEN <<b.rtype, b.reason, sender>>
        ELSE IF b.bucket = 2 THEN <<b.rtype, b.reason, add_from(to)>>
        ELSE IF b.bucket = 3 THEN <<b.rtype, b.reason, b.src>>
        ELSE IF dom # NoneVal THEN <<b.rtype, b.reason, add_from(dom)>>
        ELSE <<>>

\* proc_smtpd_reject(counter): counter is the number passed by the caller
proc_smtpd_reject(S, counter) ==
    LET counter_local == counter + 1     \* rebinds the local name only
        hour == S.parser._cur_ts.hour
        dt_fmt == cur_date_fmt(S.parser)
        day == Get(S.results.messages_per_day, dt_fmt, NewDay)
        S1 == [S EXCEPT !.results.rejected_messages_per_hour[hour] = @ + 1,
                        !.results.messages_per_day =
                            Put(@, dt_fmt, [day EXCEPT ![5] = @ + 1])]
        det == reject_detail(S.parser, S.parser._cur_msg.body)
    IN  IF ~S.parser.detail_reject \/ det = <<>> THEN S1
        ELSE _incr_reject_counter(S1, det[1], det[2], det[3])

\* re_smtpd_reject: "[pid]: <qid>: <keyword>: "
re_smtpd_reject_match(msg) ==
    /\ msg.body.kind = "reject" /\ msg.pid # 0 /\ msg.qid # msg.body.subtype
    /\ msg.body.subtype \in {"reject", "reject_warning", "hold", "discard"}

_eval_smtpd_rejects(S, sub_type) ==
    IF sub_type = "reject" THEN proc_smtpd_reject(S, S.results.messages.rejected)
    ELSE IF sub_type = "reject_warning"
    THEN proc_smtpd_reject(S, S.results.messages.warning)
    ELSE IF sub_type = "hold" THEN proc_smtpd_reject(S, S.results.messages.hold)
    ELSE IF sub_type = "discard" THEN proc_smtpd_reject(S, S.results.messages.discard)
    ELSE S

(***************************************************************************)
(* smtpd: connection statistics                                            *)
(***************************************************************************)
\* re_smtpd_connect / re_smtpd_disconnect: ": connect from ", ": disconnect from "
re_smtpd_connect_match(msg) == msg.body.kind = "connect"
re_smtpd_disconnect_match(msg) == msg.body.kind = "disconnect"
\* re_smtpd_pid, re_smtpd_pid_disconnect: "/smtpd[<pid>]: " before the phrase
re_smtpd_pid_match(msg) == msg.cmd = "smtpd" /\ msg.pid # 0

\* add_connection with `=` in the place of `+=` for the total seconds
add_connection_overwrite(t, seconds) ==
    <<t[1] + 1, seconds, IF seconds > t[3] THEN seconds ELSE t[3]>>

\* the triplet [count, total seconds, max seconds] after one connection
add_connection(t, seconds) ==
    <<t[1] + 1, t[2] + seconds, IF seconds > t[3] THEN seconds ELSE t[3]>>

NewTriplet == <<0, 0, 0>>

\* the statements of the disconnect branch after the lookup of the pid
record_disconnect(S, pid, start) ==
    LET p == S.parser
        hour == p._cur_ts.hour
        dt_fmt == cur_date_fmt(p)
        host_id == gimme_domain(p._cur_msg.body.host)
        seconds == total_seconds(p._cur_ts, start)
    IN  [S EXCEPT
          !.parser._connection_times = Del(@, pid),
          !.results.smtpd_messages_per_hour[hour] = add_connection(@, seconds),
          !.results.smtpd_per_day =
              Put(@, dt_fmt, add_connection(Get(@, dt_fmt, NewTriplet), seconds)),
          !.results.smtpd_per_domain =
              Put(@, host_id, add_connection(Get(@, host_id, NewTriplet), seconds)),
          !.results.connections_total = @ + 1,
          !.results.connections_time = @ + seconds]

\* _eval_smtpd_connections without `if pid not in self._connection_times: return`,
\* a pid that is not pending taken as connected at the current time stamp
_eval_smtpd_connections_unguarded(S) ==
    LET p == S.parser
        msg == p._cur_msg
    IN  IF ~p.smtpd_stats THEN S
        ELSE IF re_smtpd_connect_match(msg)
        THEN IF re_smtpd_pid_match(msg)
             THEN [S EXCEPT !.parser._connection_times = Put(@, msg.pid, p._cur_ts)]
             ELSE S
        ELSE IF re_smtpd_disconnect_match(msg) /\ re_smtpd_pid_match(msg)
        THEN record_disconnect(S, msg.pid, Get(p._connection_times, msg.pid, p._cur_ts))
        ELSE S

_eval_smtpd_connections(S) ==
    LET p == S.parser
        msg == p._cur_msg
        pid == msg.pid
    IN  IF ~p.smtpd_stats THEN S
        ELSE IF re_smtpd_connect_match(msg)
        THEN IF re_smtpd_pid_match(msg)
             THEN [S EXCEPT !.parser._connection_times = Put(@, pid, p._cur_ts)]
             ELSE S
        ELSE IF re_smtpd_disconnect_match(msg) /\ re_smtpd_pid_match(msg)
        THEN IF ~Has(p._connection_times, pid) THEN S
             ELSE record_disconnect(S, pid, p._connection_times[pid])
        ELSE S

eval_smtpd_msg(S) ==
    LET msg == S.parser._cur_msg
    IN  IF re_smtpd_client_match(msg)
        THEN _incr_smtpd_client_counters(S, msg.body.host)
        ELSE IF re_smtpd_reject_match(msg)
        THEN _eval_smtpd_rejects(S, msg.body.subtype)
        ELSE _eval_smtpd_connections(S)

(***************************************************************************)
(* warning, fatal, panic, master                                           *)
(***************************************************************************)
\* re_warning.sub('', msg) and its like: the text after the keyword
_eval_warning_cmd(S) ==
    LET cmd == S.parser._cur_pf_command
        warn_msg == string_trimmer(S.parser._cur_msg.body.text,
                                   S.parser.detail_verbose_msg)
    IN  IF cmd = "smtpd" /\ S.parser.detail_smtpd_warning THEN S
        ELSE [S EXCEPT !.results.warnings = Incr2(@, cmd, warn_msg)]

_eval_fatal_cmd(S) ==
    LET cmd == S.parser._cur_pf_command
        fatal_msg == string_trimmer(S.parser._cur_msg.body.text,
                                    S.parser.detail_verbose_msg)
    IN  [S EXCEPT !.results.fatals = Incr2(@, cmd, fatal_msg)]

_eval_panic_cmd(S) ==
    LET cmd == S.parser._cur_pf_command
        panic_msg == string_trimmer(S.parser._cur_msg.body.text,
                                    S.parser.detail_verbose_msg)
    IN  [S EXCEPT !.results.panics = Incr2(@, cmd, panic_msg)]

\* the master branch of eval_command_msg; mparts[1] is the text after the last ": "
eval_master_msg(S) ==
    LET mpart == S.parser._cur_msg.body.text
    IN  [S EXCEPT !.results.messages.master = @ + 1,
                  !.results.master_msgs = Incr(@, mpart, 1)]

(***************************************************************************)
(* cleanup                                                                 *)
(***************************************************************************)
\* re_cmd_cleanup: "/cleanup[pid]: ... <subtype>: <part> <cmd_msg>"
re_cmd_cleanup_match(msg) ==
    /\ msg.cmd = "cleanup" /\ msg.pid # 0 /\ msg.body.kind = "cleanup"
    /\ msg.body.subtype \in {"reject", "warning", "hold", "discard"}
    /\ msg.body.part \in {"header", "body"}

\* the table and the counter of a subtype
cleanup_table(subtype) ==
    CASE subtype = "reject" -> "rejects" [] subtype = "warning" -> "warns"
      [] subtype = "hold" -> "holds" [] subtype = "discard" -> "discards"
cleanup_counter(subtype) ==
    CASE subtype = "reject" -> "rejected" [] subtype = "warning" -> "warning"
      [] subtype = "hold" -> "hold" [] subtype = "discard" -> "discard"

_eval_cleanup_cmd(S, subtype, part, b) ==
    LET p == S.parser
        \* re_clean_from.sub('', cmd_msg) drops the "; from=<..." tail
        cmd_msg == IF ~p.detail_verbose_msg
                   THEN string_trimmer(b.cmd_msg, p.detail_verbose_msg)
                   ELSE b.cmd_msg \o b.tail
        hour == p._cur_ts.hour
        dt_fmt == cur_date_fmt(p)
        S1 == [S EXCEPT !.results.rejected_messages_per_hour[hour] = @ + 1]
        tbl == cleanup_table(subtype)
    IN  IF ~Has(S1.results.messages_per_day, dt_fmt) THEN Fail(S1, "KeyError")
        ELSE LET S2 == [S1 EXCEPT !.results.messages_per_day[dt_fmt][5] = @ + 1,
                                  !.results.messages[cleanup_counter(subtype)] = @ + 1]
             IN  IF ~p.detail_reject THEN S2
                 ELSE [S2 EXCEPT !.results[tbl].cleanup = Incr2(@, part, cmd_msg)]

(***************************************************************************)
(* qmgr and the others: message size and relay outcome                     *)
(***************************************************************************)
\* re_from_size: "from=<sender>, size=<digits>"; re_relay: "to=<..>, relay=.."
re_from_size_match(msg) == msg.body.kind = "fromsize"
re_relay_match(msg) == msg.body.kind = "relay"

\* the sender as _eval_message_size normalises it
normalize_addr(p, a) ==
    IF p.ignore_case THEN Addr(Lower(a.local), a.at, LowerAll(a.labels))
    ELSE IF a.at /\ a.labels # <<>> THEN Addr(a.local, TRUE, LowerAll(a.labels))
    ELSE a

\* re_domain_addr.sub(r'\1', sender): "local@rest" becomes "rest"
re_domain_addr_sub(a) ==
    IF a.local # "" /\ a.at /\ a.labels # <<>> THEN Join(a.labels) ELSE AddrStr(a)

\* `stats.<key> += n/d` on the MessageStats d[k]: the dict and the warnings logged
ms_add(d, k, key, n, den) == Put(d, k, ms_setter(d[k], key, d[k][key] * den + n, den))
ms_add_warns(d, k, key, n, den) == IF ms_refuses(d[k][key] * den + n, den) THEN 1 ELSE 0

\* `qid in self._message_size`
size_never_recorded(p, qid) == FALSE
size_recorded(p, qid) == Has(p._message_size, qid)

_eval_message_size(S, a, size) ==
    LET p == S.parser
        r == S.results
        qid == p._cur_qid
        na == normalize_addr(p, a)
        sender == IF AddrStr(a) # "" THEN AddrStr(na) ELSE "from=<>"
        S1 == [S EXCEPT !.parser._message_size = Put(@, qid, size),
                        !.results.message_details =
                            IF p.extended
                            THEN Put(@, qid, Append(Get(@, qid, <<>>), sender))
                            ELSE @]
        d0 == IF AddrStr(a) # "" THEN re_domain_addr_sub(na) ELSE sender
        dom_addr == IF d0 = sender /\ p._rcvd_msgs_qid[qid] # "pickup"
                    THEN p._rcvd_msgs_qid[qid] ELSE d0
        sdd0 == IF Has(r.sending_domain_data, dom_addr) THEN r.sending_domain_data
                ELSE Put(r.sending_domain_data, dom_addr, MessageStats)
        sdd1 == ms_add(sdd0, dom_addr, "count", 1, 1)
        sdd2 == ms_add(sdd1, dom_addr, "size", size, 1)
        sud0 == IF Has(r.sending_user_data, sender) THEN r.sending_user_data
                ELSE Put(r.sending_user_data, sender, MessageStats)
        sud1 == ms_add(sud0, sender, "count", 1, 1)
        sud2 == ms_add(sud1, sender, "size", size, 1)
        S2 == [S1 EXCEPT !.results.sending_domain_data = sdd2,
                         !.results.sender_domain_count =
                            IF sdd0[dom_addr].count = 0 THEN @ + 1 ELSE @,
                         !.results.sending_user_data = sud0,
                         !.log_warnings = @ + ms_add_warns(sdd0, dom_addr, "count", 1, 1)
                                            + ms_add_warns(sdd1, dom_addr, "size", size, 1)]
    IN  IF size_recorded(p, qid) THEN S
        ELSE IF ~Has(p._rcvd_msgs_qid, qid) THEN S1
        \* `self.sending_user_count += 1`: the parser has no such attribute
        ELSE IF sud0[sender].count = 0 THEN Fail(S2, "AttributeError")
        ELSE [S2 EXCEPT !.results.sending_user_data = sud2,
                        !.results.received_size = @ + size,
                        !.parser._rcvd_msgs_qid = Del(@, qid),
                        !.log_warnings = @ + ms_add_warns(sud0, sender, "count", 1, 1)
                                           + ms_add_warns(sud1, sender, "size", size, 1)]

\* delay is the fraction delay[1]/delay[2]
_eval_relay_sent_msg(S, addr, domain, delay, forwarded) ==
    LET r == S.results
        n == delay[1]
        den == delay[2]
        rd0 == IF Has(r.rcpt_domain, domain) THEN r.rcpt_domain
               ELSE Put(r.rcpt_domain, domain, MessageStats)
        rd1 == ms_add(rd0, domain, "count", 1, 1)
        rd2 == ms_add(rd1, domain, "delay_avg", n, den)
        bigger == n > rd2[domain].delay_max * den
        rd3 == IF bigger THEN Put(rd2, domain, ms_setter(rd2[domain], "delay_max", n, den))
               ELSE rd2
        ru0 == IF Has(r.rcpt_user, addr) THEN r.rcpt_user
               ELSE Put(r.rcpt_user, addr, MessageStats)
        ru1 == ms_add(ru0, addr, "count", 1, 1)
    IN  IF forwarded THEN [S EXCEPT !.results.messages_forwarded = @ + 1]
        ELSE [S EXCEPT
               !.results.rcpt_domain = rd3,
               !.results.rcpt_domain_count =
                    IF Has(r.rcpt_domain, domain) THEN @ ELSE @ + 1,
               !.results.rcpt_user = ru1,
               !.results.rcpt_user_count = IF Has(r.rcpt_user, addr) THEN @ ELSE @ + 1,
               !.log_warnings = @ + ms_add_warns(rd0, domain, "count", 1, 1)
                                  + ms_add_warns(rd1, domain, "delay_avg", n, den)
                                  + (IF bigger /\ ms_refuses(n, den) THEN 1 ELSE 0)
                                  + ms_add_warns(ru0, addr, "count", 1, 1)]

\* _eval_relayed_msg without the test of the status
_eval_relayed_msg_any_status(S, b) ==
    LET na == normalize_addr(S.parser, b.to)
        addr == AddrStr(na)
        domain == IF na.local # "" /\ na.at THEN Join(na.labels) ELSE addr
    IN  _eval_relay_sent_msg(S, addr, domain, b.delay, b.forwarded)

_eval_relayed_msg(S, b) ==
    LET p == S.parser
        na == normalize_addr(p, b.to)
        addr == AddrStr(na)
        \* re_domain_only.sub('', addr): "local@" is cut off the front
        domain == IF na.local # "" /\ na.at THEN Join(na.labels) ELSE addr
    IN  IF b.status = "sent"
        THEN _eval_relay_sent_msg(S, addr, domain, b.delay, b.forwarded)
        ELSE S

eval_other_msg(S) ==
    LET msg == S.parser._cur_msg
    IN  IF re_from_size_match(msg)
        THEN _eval_message_size(S, msg.body.sender, msg.body.size)
        ELSE IF re_relay_match(msg) THEN _eval_relayed_msg(S, msg.body)
        ELSE S

(***************************************************************************)
(* eval_command_msg and eval_line                                          *)
(***************************************************************************)
\* the dispatch with the subsystem looked at before the token
eval_command_msg_subsystem_first(S) ==
    LET p == S.parser
        msg == p._cur_msg
        qid == p._cur_qid
    IN  IF p._cur_pf_command = "cleanup" /\ re_cmd_cleanup_match(msg)
        THEN _eval_cleanup_cmd(S, msg.body.subtype, msg.body.part, msg.body)
        ELSE IF p._cur_pf_command = "master" THEN eval_master_msg(S)
        ELSE IF p._cur_pf_command = "smtpd" /\ qid \notin {"reject", "reject_warning",
                                                          "hold", "discard"}
        THEN eval_smtpd_msg(S)
        ELSE IF qid = "warning" THEN _eval_warning_cmd(S)
        ELSE IF qid = "fatal" THEN _eval_fatal_cmd(S)
        ELSE IF qid = "panic" THEN _eval_panic_cmd(S)
        ELSE IF qid = "reject" THEN proc_smtpd_reject(S, S.results.messages.rejected)
        ELSE IF qid = "reject_warning"
        THEN proc_smtpd_reject(S, S.results.messages.warning)
        ELSE IF qid = "hold" THEN proc_smtpd_reject(S, S.results.messages.hold)
        ELSE IF qid = "discard" THEN proc_smtpd_reject(S, S.results.messages.discard)
        ELSE eval_other_msg(S)
eval_command_msg(S) ==
    LET p == S.parser
        msg == p._cur_msg
        qid == p._cur_qid
    IN  IF p._cur_pf_command = "cleanup" /\ re_cmd_cleanup_match(msg)
        THEN _eval_cleanup_cmd(S, msg.body.subtype, msg.body.part, msg.body)
        ELSE IF qid = "warning" THEN _eval_warning_cmd(S)
        ELSE IF qid = "fatal" THEN _eval_fatal_cmd(S)
        ELSE IF qid = "panic" THEN _eval_panic_cmd(S)
        ELSE IF qid = "reject" THEN proc_smtpd_reject(S, S.results.messages.rejected)
        ELSE IF qid = "reject_warning"
        THEN proc_smtpd_reject(S, S.results.messages.warning)
        ELSE IF qid = "hold" THEN proc_smtpd_reject(S, S.results.messages.hold)
        ELSE IF qid = "discard" THEN proc_smtpd_reject(S, S.results.messages.discard)
        ELSE IF p._cur_pf_command = "master" THEN eval_master_msg(S)
        ELSE IF p._cur_pf_command = "smtpd" THEN eval_smtpd_msg(S)
        ELSE eval_other_msg(S)

\* the date bookkeeping of eval_line (lines 1073-1080)
count_day(S) ==
    LET p == S.parser
        current_date == date(p._cur_ts)
        dt_fmt == cur_date_fmt(p)
    IN  IF p.last_date = NoDate \/ p.last_date # current_date
        THEN [S EXCEPT !.parser.last_date = current_date,
                       !.results.days_counted = @ + 1,
                       !.results.messages_per_day =
                            IF p.zero_fill /\ ~Has(@, dt_fmt)
                            THEN Put(@, dt_fmt, NewDay) ELSE @]
        ELSE S

eval_line(S, line) ==
    LET S0 == [S EXCEPT !.results = incr_lines_total(@)]
        result == _eval_msg_ts(S.parser, line)
    IN  IF S.parser.re_date_filter /\ ~date_filter_match(S.parser, line) THEN S0
        ELSE IF result.exc # "" THEN Fail(S0, result.exc)
        ELSE IF ~result.ok THEN S0
        ELSE LET S1 == [S0 EXCEPT !.parser.has_cur_ts = TRUE,
                                  !.parser._cur_ts = result.ts,
                                  !.parser._cur_msg = result.msg]
                 S2 == count_day(S1)
                 cmd == _eval_pf_command(S.parser, result.msg)
                 S3 == [S2 EXCEPT !.parser._cur_pf_command = cmd.cmd,
                                  !.parser._cur_qid = cmd.qid,
                                  !.results = incr_lines_considered(@)]
             IN  IF re_amavis_match(result.msg)
                 THEN [S2 EXCEPT !.results.amavis_msgs = @ + 1]
                 ELSE IF ~cmd.ok THEN S2
                 ELSE eval_command_msg(S3)

(***************************************************************************)
(* stats.BaseMessageStats: the _values dict behind __setattr__.  A value   *)
(* passed in is [kind, n]: the integer n, or (kind "str") a text that is   *)
(* no number.                                                              *)
(***************************************************************************)
valid_keys == <<"value_one", "value_two">>
IntVal(n) == [kind |-> "int", n |-> n]
StrVal == [kind |-> "str", n |-> 0]

Range(f) == {f[i] : i \in DOMAIN f}

\* BaseMessageStats.__getattr__ for a valid key
bms_getattr(values, name) == Get(values, name, 0)

\* BaseMessageStats.__setattr__: the exception raised ("" when none)
bms_setattr_exc(name, value) ==
    IF name \notin Range(valid_keys) THEN "WrongMsgStatsAttributeError"
    \* int(None) raises TypeError, which the `except ValueError` lets through
    ELSE IF value.kind = "none" THEN "TypeError"
    ELSE IF value.kind # "int" THEN "WrongMsgStatsValueError"
    ELSE IF value.n < 0 THEN "WrongMsgStatsValueError"
    ELSE ""

\* __setattr__ storing the number whatever its sign
bms_setattr_unchecked(values, name, value) ==
    IF value.kind = "int" /\ name \in Range(valid_keys) THEN Put(values, name, value.n)
    ELSE values

\* BaseMessageStats.__setattr__: the _values dict after the call
bms_setattr(values, name, value) ==
    IF bms_setattr_exc(name, value) # "" THEN values ELSE Put(values, name, value.n)

(***************************************************************************)
(* The state machine.                                                      *)
(***************************************************************************)
Today == <<2023, 6, 15>>

State == [results |-> results, parser |-> parser, raised |-> raised,
          log_warnings |-> log_warnings]

NoCall == [obj |-> "", key |-> "", value |-> IntVal(0)]

\* two objects used on their own: ms a MessageStats of __init__.py, bms the
\* _values of a stats.BaseMessageStats; call is the latest call made on them,
\* exc the exception it raised, ncalls the number of calls made; hourly is the
\* _list of a stats.HourlyStats() (hour h is hourly[h + 1]), copied the object
\* the latest ms.copy() returned
InitStats == [ms |-> MessageStats, bms |-> EmptyDict, call |-> NoCall, exc |-> "",
              ncalls |-> 0, hourly |-> [hour \in 1..HOURS_PER_DAY |-> 0],
              copied |-> MessageStats]

InitWith(options) ==
    /\ results = reset
    /\ parser \in {__init__(Today, o) : o \in options}
    /\ raised = ""
    /\ log_warnings = 0
    /\ fed = <<>>
    /\ stats = InitStats

\* one call of eval_line; an exception that leaves it ends the run
EvalLine(line) ==
    /\ raised = ""
    /\ Len(fed) < MaxLines
    /\ LET T == eval_line(State, line)
       IN  /\ results' = T.results
           /\ parser' = T.parser
           /\ raised' = T.raised
           /\ log_warnings' = T.log_warnings
    /\ fed' = Append(fed, line)
    /\ UNCHANGED stats

\* results.start_logfile(logfile), as parse() calls it before a file's lines
StartLogfile(logfile) ==
    /\ raised = ""
    /\ Len(results.files) < MaxFiles
    /\ results' = start_logfile(results, logfile)
    /\ UNCHANGED <<parser, raised, log_warnings, fed, stats>>

\* ms.<key> = n on the MessageStats object
MsSet(key, n) ==
    /\ stats.ncalls < MaxCalls
    /\ stats' = [stats EXCEPT !.ms = ms_setter(@, key, n, 1),
                              !.call = [obj |-> "ms", key |-> key, value |-> IntVal(n)],
                              !.exc = "", !.ncalls = @ + 1]
    /\ log_warnings' = log_warnings + (IF ms_refuses(n, 1) THEN 1 ELSE 0)
    /\ UNCHANGED <<results, parser, raised, fed>>

\* bms.<name> = value on the BaseMessageStats object
BmsSetAttr(name, value) ==
    /\ stats.ncalls < MaxCalls
    /\ stats' = [stats EXCEPT !.bms = bms_setattr(@, name, value),
                              !.call = [obj |-> "bms", key |-> name, value |-> value],
                              !.exc = bms_setattr_exc(name, value), !.ncalls = @ + 1]
    /\ UNCHANGED <<results, parser, raised, log_warnings, fed>>

(***************************************************************************)
(* The log lines fed to the parser.                                        *)
(***************************************************************************)
\* "YYYY-MM-DDTHH:MM:SS<tz> mail <msg>" and "Mon DD HH:MM:SS mail <msg>"
RfcLine(ymd, hms, tz, msg) == Line("LF", "rfc", "", ymd, hms, tz, msg)
TradLine(eol, month_str, day, hms, msg) ==
    Line(eol, "trad", month_str, <<0, 0, day>>, hms, TzZ, msg)
\* a line that starts with neither head
JunkLine == Line("LF", "none", "", <<0, 0, 0>>, <<0, 0, 0>>, TzZ, NoMsg)

FooHost == Host(<<"foo", "example", "com">>, "[", "10.0.0.1", TRUE)
UnknownHost == Host(<<"unknown">>, "[", "10.0.0.2", TRUE)
AddrA == Addr("a", TRUE, <<"example", "com">>)
AddrBob == Addr("Bob", TRUE, <<"Example", "org">>)

DayA == <<2023, 1, 10>>
DayB == <<2023, 1, 11>>

\* "postfix/smtpd[pid]: connect from host" / "... disconnect from host"
ConnMsg(kind, pid, host) == Msg("postfix", "smtpd", pid, kind, ConnectBody(kind, host))
\* "postfix/smtpd[pid]: qid: client=host<after>"
ClientMsg(pid, qid, host, after) == Msg("postfix", "smtpd", pid, qid, ClientBody(host, after))
\* "postfix/qmgr[pid]: qid: from=<sender>, size=N, nrcpt=1 (queue active)"
FromSizeMsg(pid, qid, sender, size) ==
    Msg("postfix", "qmgr", pid, qid, FromSizeBody(sender, size))
\* "postfix/smtp[pid]: qid: to=<to>, relay=.., delay=D, .., status=S (..)"
RelayMsg(pid, qid, to, delay, status, forwarded) ==
    Msg("postfix", "smtp", pid, qid,
        RelayBody(to, "mx.example.org[10.0.0.9]:25", delay, status, forwarded))
\* "postfix/cleanup[pid]: qid: <subtype>: <part> <text> from host; from=<..> .."
CleanupMsg(pid, qid, subtype, part, text) ==
    Msg("postfix", "cleanup", pid, qid,
        CleanupBody(subtype, part, text, "; from=<a@example.com> to=<b@example.org>"))
\* "postfix/smtpd[pid]: <qid>: <subtype>: RCPT from host: 554 5.7.1 <to>: Relay
\*  access denied; from=<..> to=<..>"; with qid = subtype the line is
\* "postfix/smtpd[pid]: <subtype>: RCPT from host: ..."
RejectMsg(pid, qid, subtype) ==
    Msg("postfix", "smtpd", pid, qid,
        RejectBody(subtype, "RCPT", TRUE, "Relay access denied", 2,
                   "b@example.org", "a@example.com", FooHost))

\* the two time stamps of the connection lines: 3605 seconds apart, in
\* different hours of different days, written with different offsets
StampOne == <<DayA, <<23, 59, 58>>, TzOff(2, 0)>>
StampTwo == <<DayB, <<0, 0, 3>>, TzOff(1, 0)>>
ConnPids == {111, 222}
HostOf(pid) == IF pid = 111 THEN FooHost ELSE UnknownHost

LinesConn ==
    {RfcLine(t[1], t[2], t[3], ConnMsg(kind, pid, HostOf(pid))) :
        kind \in {"connect", "disconnect"}, pid \in ConnPids, t \in {StampOne, StampTwo}}

\* the two lines "Jan 10 08:00:01 mail postfix/smtpd[111]: ABC123:
\* client=foo.example.com[10.0.0.1]" and "Jan 10 08:00:02 mail postfix/qmgr[222]:
\* ABC123: from=<a@example.com>, size=500", and their like with an RFC3339 head
LinesMsg ==
    {TradLine("", "Jan", 10, <<8, 0, 1>>, ClientMsg(111, "ABC123", FooHost, "")),
     TradLine("", "Jan", 10, <<8, 0, 2>>, FromSizeMsg(222, "ABC123", AddrA, 500)),
     RfcLine(DayA, <<8, 0, 1>>, TzOff(1, 0), ClientMsg(111, "ABC123", FooHost, "")),
     RfcLine(DayA, <<8, 0, 1>>, TzOff(1, 0), ClientMsg(111, "ABC123", FooHost, ",/")),
     RfcLine(DayB, <<9, 0, 1>>, TzOff(1, 0), ClientMsg(111, "ABC123", UnknownHost, ",/")),
     RfcLine(DayA, <<8, 0, 2>>, TzOff(1, 0), FromSizeMsg(222, "ABC123", AddrA, 500)),
     RfcLine(DayA, <<7, 0, 0>>, TzOff(1, 0), RejectMsg(111, "NOQUEUE", "reject"))}

LinesRej ==
    {RfcLine(DayA, <<8, 0, 1>>, TzZ, CleanupMsg(333, "ABC123", "reject", "header", "Subject: foo")),
     RfcLine(DayB, <<9, 0, 1>>, TzZ, CleanupMsg(333, "DEF456", "reject", "body", "viagra")),
     RfcLine(DayA, <<10, 0, 1>>, TzZ, CleanupMsg(333, "ABC123", "hold", "header", "X-Hold: yes")),
     RfcLine(DayA, <<11, 0, 1>>, TzZ, RejectMsg(111, "reject", "reject")),
     RfcLine(DayA, <<12, 0, 1>>, TzZ, RejectMsg(111, "reject_warning", "reject_warning")),
     RfcLine(DayB, <<13, 0, 1>>, TzZ, RejectMsg(111, "hold", "hold")),
     RfcLine(DayA, <<14, 0, 1>>, TzZ, RejectMsg(111, "discard", "discard"))}

LinesDay ==
    {RfcLine(DayA, <<8, 0, 1>>, TzZ, RejectMsg(111, "NOQUEUE", "reject")),
     RfcLine(DayB, <<8, 0, 1>>, TzZ, RejectMsg(111, "NOQUEUE", "reject")),
     RfcLine(DayA, <<9, 0, 1>>, TzZ, Msg("kernel", "", 0, "", TextBody("eth0: link up"))),
     RfcLine(DayA, <<10, 0, 1>>, TzZ, Msg("amavis", "", 444, "(444-01)", TextBody("Passed CLEAN"))),
     JunkLine}

LinesAll ==
    {RfcLine(DayB, <<0, 0, 3>>, TzOff(1, 0), ConnMsg("connect", 111, FooHost)),
     RfcLine(DayA, <<23, 59, 58>>, TzOff(2, 0), ConnMsg("disconnect", 111, FooHost)),
     RfcLine(DayA, <<8, 0, 1>>, TzZ, ClientMsg(111, "ABC123", FooHost, ",/")),
     RfcLine(DayA, <<8, 0, 2>>, TzZ, FromSizeMsg(222, "ABC123", AddrA, 500)),
     RfcLine(DayA, <<8, 0, 3>>, TzZ, RelayMsg(555, "ABC123", AddrBob, <<5, 2>>, "sent", FALSE)),
     RfcLine(DayA, <<8, 0, 4>>, TzZ, RelayMsg(555, "ABC123", AddrBob, <<-3, 1>>, "sent", FALSE)),
     RfcLine(DayA, <<8, 0, 5>>, TzZ, RelayMsg(555, "ABC123", AddrA, <<1, 1>>, "sent", TRUE)),
     RfcLine(DayA, <<8, 0, 6>>, TzZ, CleanupMsg(333, "ABC123", "reject", "header", "Subject: foo")),
     RfcLine(DayB, <<8, 0, 7>>, TzZ, RejectMsg(111, "NOQUEUE", "reject")),
     RfcLine(DayB, <<8, 0, 8>>, TzZ,
             Msg("postfix", "master", 1, "daemon", TextBody("started -- version 3.5"))),
     RfcLine(DayB, <<8, 0, 9>>, TzZ, Msg("amavis", "", 444, "(444-01)", TextBody("Passed CLEAN")))}

Logfiles == {"mail.log"}

(***************************************************************************)
(* The specifications: the same parser, fed from one set of lines each.    *)
(***************************************************************************)
Feed(lines) == \E line \in lines : EvalLine(line)

OptionsConn == {[DefaultOptions EXCEPT !.smtpd_stats = s] : s \in BOOLEAN}
InitConn == InitWith(OptionsConn)
NextConn == Feed(LinesConn)
SpecConn == InitConn /\ [][NextConn]_vars

OptionsFill == {[DefaultOptions EXCEPT !.zero_fill = z] : z \in BOOLEAN}
InitMsg == InitWith(OptionsFill)
NextMsg == Feed(LinesMsg)
SpecMsg == InitMsg /\ [][NextMsg]_vars

OptionsRej ==
    {[DefaultOptions EXCEPT !.zero_fill = z, !.detail_reject = d] : z, d \in BOOLEAN}
InitRej == InitWith(OptionsRej)
NextRej == Feed(LinesRej)
SpecRej == InitRej /\ [][NextRej]_vars

InitDay == InitWith(OptionsFill)
FeedDay == Feed(LinesDay)
StartFile == \E logfile \in Logfiles : StartLogfile(logfile)
NextDay == FeedDay \/ StartFile
SpecDay == InitDay /\ [][NextDay]_vars

OptionsAll ==
    {[DefaultOptions EXCEPT !.zero_fill = z, !.smtpd_stats = TRUE] : z \in BOOLEAN}
InitAll == InitWith(OptionsAll)
NextAll == Feed(LinesAll)
SpecAll == InitAll /\ [][NextAll]_vars

\* the calls made on the two statistics objects
SetKeys == {"count", "size"}
SetNumbers == {-1, 0, 3}
SetNames == {"value_one", "value_two", "value_three"}
SetValues == {IntVal(n) : n \in SetNumbers} \cup {StrVal}

InitSet == InitWith({DefaultOptions})
MsCall == \E key \in SetKeys, n \in SetNumbers : MsSet(key, n)
BmsCall == \E name \in SetNames, value \in SetValues : BmsSetAttr(name, value)
NextSet == MsCall \/ BmsCall
SpecSet == InitSet /\ [][NextSet]_vars

(***************************************************************************)
(* Properties.  The line of a step is the last line of fed after it.       *)
(***************************************************************************)
Fed == fed' # fed
StepLine == fed'[Len(fed')]

\* the time stamp eval_line takes from a line with an RFC3339 head
LineTs(line) == _eval_msg_ts_rfc3339(parser, line).ts

IsConnLine(line, kind, pid) ==
    line.msg.cmd = "smtpd" /\ line.msg.body.kind = kind /\ line.msg.pid = pid

\* fed[i] is a connect line of the pid, with no disconnect line of it after
OpenConnect(i, pid) ==
    /\ IsConnLine(fed[i], "connect", pid)
    /\ \A j \in (i + 1)..Len(fed) : ~IsConnLine(fed[j], "disconnect", pid)

\* ... and no other connect line of it after
LatestConnect(i, pid) ==
    /\ OpenConnect(i, pid)
    /\ \A j \in (i + 1)..Len(fed) : ~IsConnLine(fed[j], "connect", pid)

\* the one update a disconnect line makes for the connect line conn
ConnectionUpdate(conn, disc) ==
    LET ts == LineTs(disc)
        elapsed == total_seconds(ts, LineTs(conn))
        day == strftime_ymd(ts)
        dom == gimme_domain(disc.msg.body.host)
        old == results
        new == results'
        Same(a, b, k) == Get(a, k, NewTriplet) = Get(b, k, NewTriplet)
        Added(a, b) == b[1] = a[1] + 1 /\ b[2] = a[2] + elapsed
    IN  /\ Added(old.smtpd_messages_per_hour[ts.hour], new.smtpd_messages_per_hour[ts.hour])
        /\ \A h \in Hours \ {ts.hour} :
                new.smtpd_messages_per_hour[h] = old.smtpd_messages_per_hour[h]
        /\ DOMAIN new.smtpd_per_day = DOMAIN old.smtpd_per_day \cup {day}
        /\ Added(Get(old.smtpd_per_day, day, NewTriplet), new.smtpd_per_day[day])
        /\ \A k \in DOMAIN old.smtpd_per_day \ {day} :
                Same(old.smtpd_per_day, new.smtpd_per_day, k)
        /\ DOMAIN new.smtpd_per_domain = DOMAIN old.smtpd_per_domain \cup {dom}
        /\ Added(Get(old.smtpd_per_domain, dom, NewTriplet), new.smtpd_per_domain[dom])
        /\ \A k \in DOMAIN old.smtpd_per_domain \ {dom} :
                Same(old.smtpd_per_domain, new.smtpd_per_domain, k)
        /\ new.connections_total = old.connections_total + 1
        /\ disc.msg.pid \notin DOMAIN parser'._connection_times

\* C1, as amended: with smtpd_stats on, a disconnect line of a pid that follows
\* a connect line of the pid, with no other connect or disconnect line of the
\* pid in between, makes exactly one update: count + 1 and total seconds +
\* elapsed in the hourly slot of the disconnect's hour, in the per-day entry
\* of its date and in the per-domain entry of its resolved client,
\* connections_total + 1, elapsed being the disconnect's time stamp minus the
\* connect's; the pending entry of the pid is removed.
C1_OneUpdate ==
    [][Fed /\ parser.smtpd_stats =>
        \A pid \in ConnPids : \A i \in 1..Len(fed) :
            IsConnLine(StepLine, "disconnect", pid) /\ LatestConnect(i, pid)
                => ConnectionUpdate(fed[i], StepLine)]_vars

\* C1 as stated: the same for every connect line of the pid that has no
\* disconnect line of the pid after it
C1_AsStated ==
    [][Fed /\ parser.smtpd_stats =>
        \A pid \in ConnPids : \A i \in 1..Len(fed) :
            IsConnLine(StepLine, "disconnect", pid) /\ OpenConnect(i, pid)
                => ConnectionUpdate(fed[i], StepLine)]_vars

\* a connect line and then the disconnect line of its pid have been fed, in
\* another hour of another day, and the connection is counted
C1_Witness ==
    /\ parser.smtpd_stats /\ Len(fed) = 2
    /\ \E pid \in ConnPids :
          IsConnLine(fed[1], "connect", pid) /\ IsConnLine(fed[2], "disconnect", pid)
    /\ results.connections_total = 1
    /\ results.connections_time = 3605
    /\ results.smtpd_messages_per_hour[0] = <<1, 3605, 3605>>

\* no connect line of the pid in fed is still open
NoPending(pid) == \A i \in 1..Len(fed) : ~OpenConnect(i, pid)

\* C2: a disconnect line of a pid with no pending connect (never connected, or
\* disconnected already) changes nothing in the connection tables, in
\* connections_total and connections_time and in the pending map, and raises
\* no error.
C2_StrayDisconnect ==
    [][Fed =>
        \A pid \in ConnPids :
            IsConnLine(StepLine, "disconnect", pid) /\ NoPending(pid) =>
                /\ results'.smtpd_messages_per_hour = results.smtpd_messages_per_hour
                /\ results'.smtpd_per_day = results.smtpd_per_day
                /\ results'.smtpd_per_domain = results.smtpd_per_domain
                /\ results'.connections_total = results.connections_total
                /\ results'.connections_time = results.connections_time
                /\ parser'._connection_times = parser._connection_times
                /\ raised' = ""]_vars

\* a disconnect line of a pid that was counted and disconnected before has
\* been fed, while the other pid is pending
C2_Witness ==
    /\ parser.smtpd_stats /\ Len(fed) = 4 /\ raised = ""
    /\ IsConnLine(fed[1], "connect", 111) /\ IsConnLine(fed[2], "disconnect", 111)
    /\ IsConnLine(fed[3], "connect", 222) /\ IsConnLine(fed[4], "disconnect", 111)
    /\ results.connections_total = 1
    /\ DOMAIN parser._connection_times = {222}

\* the line is "postfix/smtpd[..]: <qid>: client=..." / "...: <qid>: from=<..>, size=.."
IsClientLine(line, qid) ==
    line.msg.cmd = "smtpd" /\ line.msg.body.kind = "client" /\ line.msg.qid = qid
IsFromSizeLine(line, qid) == line.msg.body.kind = "fromsize" /\ line.msg.qid = qid
Qids == {"ABC123"}
StatOf(table, key) == Get(table, key, MessageStats)

\* C3: for every queue ID q, a "from=<user@d>, size=N" line for q (the first
\* of q) that follows a "client=" announcement for q commits the statistics:
\* sending_domain_data[d].count + 1 and .size + N, sending_user_data[user@d]
\* .count + 1 and .size + N, and received_size + N.
C3_AsStated ==
    [][Fed =>
        \A q \in Qids :
            /\ IsFromSizeLine(StepLine, q)
            /\ \E i \in 1..Len(fed) : IsClientLine(fed[i], q)
            /\ \A i \in 1..Len(fed) : ~IsFromSizeLine(fed[i], q)
            => LET b == StepLine.msg.body
                   d == Join(b.sender.labels)
                   user == AddrStr(b.sender)
                   old == results
                   new == results'
               IN  /\ StatOf(new.sending_domain_data, d).count
                        = StatOf(old.sending_domain_data, d).count + 1
                   /\ StatOf(new.sending_domain_data, d).size
                        = StatOf(old.sending_domain_data, d).size + b.size
                   /\ StatOf(new.sending_user_data, user).count
                        = StatOf(old.sending_user_data, user).count + 1
                   /\ StatOf(new.sending_user_data, user).size
                        = StatOf(old.sending_user_data, user).size + b.size
                   /\ new.received_size = old.received_size + b.size]_vars

\* C10: a "client=" announcement for queue ID q, on a line whose time stamp
\* is read, increments the received-per-hour slot of the line's hour, the
\* received field of the per-day record of the line's date and the total
\* received counter by 1, leaves the deferred, bounced and rejected fields of
\* the per-day record unchanged, and stores the resolved client domain under q.
C10_AsStated ==
    [][Fed =>
        \A q \in Qids :
            IsClientLine(StepLine, q) /\ re_date_rfc3339_match(StepLine)
            => LET ts == LineTs(StepLine)
                   day == strftime_ymd(ts)
                   old == Get(results.messages_per_day, day, NewDay)
                   new == Get(results'.messages_per_day, day, NewDay)
               IN  /\ results'.received_messages_per_hour[ts.hour]
                        = results.received_messages_per_hour[ts.hour] + 1
                   /\ new[1] = old[1] + 1
                   /\ new[3] = old[3] /\ new[4] = old[4] /\ new[5] = old[5]
                   /\ results'.messages_received_total
                        = results.messages_received_total + 1
                   /\ Get(parser'._rcvd_msgs_qid, q, NoneVal)
                        = gimme_domain(StepLine.msg.body.host)]_vars

IsCleanupLine(line, subtype) ==
    /\ line.msg.cmd = "cleanup" /\ line.msg.body.kind = "cleanup"
    /\ line.msg.body.subtype = subtype /\ line.msg.body.part \in {"header", "body"}

\* C4: with reject details kept, one cleanup reject line increments the
\* rejected total by exactly 1, the rejected-per-hour slot of the line's hour
\* by exactly 1 and rejects["cleanup"][part][message] by exactly 1; no other
\* hourly slot changes.
C4_AsStated ==
    [][Fed /\ parser.detail_reject /\ IsCleanupLine(StepLine, "reject") =>
        LET ts == LineTs(StepLine)
            b == StepLine.msg.body
            Count(t) == Get(Get(t.cleanup, b.part, EmptyDict), b.cmd_msg, 0)
        IN  /\ results'.messages.rejected = results.messages.rejected + 1
            /\ results'.rejected_messages_per_hour[ts.hour]
                 = results.rejected_messages_per_hour[ts.hour] + 1
            /\ \A h \in Hours \ {ts.hour} :
                 results'.rejected_messages_per_hour[h]
                   = results.rejected_messages_per_hour[h]
            /\ Count(results'.rejects) = Count(results.rejects) + 1]_vars

\* the totals counter of a token
TokenCounter(token) ==
    CASE token = "reject" -> "rejected" [] token = "reject_warning" -> "warning"
      [] token = "hold" -> "hold" [] token = "discard" -> "discard"

\* C9: a considered line whose token is reject, reject_warning, hold or
\* discard increments the matching totals counter (rejected, warning, hold,
\* discard) by exactly 1 and the rejected-per-hour slot of the line's hour by
\* exactly 1.
C9_AsStated ==
    [][Fed /\ StepLine.msg.cmd = "smtpd"
           /\ StepLine.msg.qid \in {"reject", "reject_warning", "hold", "discard"} =>
        LET ts == LineTs(StepLine)
            counter == TokenCounter(StepLine.msg.qid)
        IN  /\ results'.lines_considered = results.lines_considered + 1
            /\ results'.messages[counter] = results.messages[counter] + 1
            /\ results'.rejected_messages_per_hour[ts.hour]
                 = results.rejected_messages_per_hour[ts.hour] + 1]_vars

\* the totals counters of the result structure
TotalsOf(r) ==
    <<r.lines_total, r.lines_considered, r.days_counted, r.amavis_msgs,
      r.messages_received_total, r.connections_total, r.messages.discard,
      r.messages.hold, r.messages.master, r.messages.rejected, r.messages.warning,
      r.sender_domain_count, r.sending_user_count, r.received_size,
      r.messages_forwarded, r.rcpt_domain_count, r.rcpt_user_count>>

\* the tables of statistics records (MessageStats objects)
StatTables(r) == <<r.sending_domain_data, r.sending_user_data, r.rcpt_domain, r.rcpt_user>>

C5_NonNegative ==
    /\ \A i \in DOMAIN TotalsOf(results) : TotalsOf(results)[i] >= 0
    /\ \A t \in DOMAIN StatTables(results) :
         \A k \in DOMAIN StatTables(results)[t] :
            \A f \in DOMAIN StatTables(results)[t][k] : StatTables(results)[t][k][f] >= 0
    /\ \A d \in DOMAIN results.messages_per_day :
         \A i \in 1..5 : results.messages_per_day[d][i] >= 0

C5_NoDecrease ==
    \A i \in DOMAIN TotalsOf(results) : TotalsOf(results')[i] >= TotalsOf(results)[i]

\* C5: in every state reached by feeding lines in one run, every totals
\* counter and every field of every statistics record (and of every per-day
\* record) is >= 0, and no totals counter decreases from one line to the next.
C5_Counters == []C5_NonNegative /\ [][C5_NoDecrease]_vars

\* lines of every kind have been counted, and a relay line with a negative
\* delay has made a setter refuse a value
C5_Witness ==
    /\ log_warnings >= 1 /\ raised = ""
    /\ results.rcpt_user_count >= 1 /\ results.messages.master >= 1
    /\ results.connections_total >= 1 /\ results.connections_time < 0
    /\ \E k \in DOMAIN results.rcpt_domain : results.rcpt_domain[k].delay_avg = 0

\* the latest call tried to set a counter (a valid key) to a negative number
NegativeSet ==
    /\ stats'.ncalls # stats.ncalls
    /\ stats'.call.value.kind = "int" /\ stats'.call.value.n < 0
    /\ stats'.call.obj = "bms" => stats'.call.key \in Range(valid_keys)

ValuesKept == stats'.ms = stats.ms /\ stats'.bms = stats.bms

Stamped == {i \in 1..Len(fed) : re_date_match(fed[i]) \/ re_date_rfc3339_match(fed[i])}
DateOf(line) == <<line.year, line.month, line.day>>
DatesSeen == {DateOf(fed[i]) : i \in Stamped}
IsRejectLine(line) == line.msg.cmd = "smtpd" /\ line.msg.body.kind = "reject"

\* C7: after any sequence of timestamped lines days_counted is the number of
\* distinct calendar dates among them, and the events of a date are recorded
\* in the per-day bucket of that date, also when they share a queue ID.
C7_AsStated ==
    /\ results.days_counted = Cardinality(DatesSeen)
    /\ \A d \in DatesSeen :
         Get(results.messages_per_day, d[1] * 10000 + d[2] * 100 + d[3], NewDay)[5]
           = Cardinality({i \in Stamped : DateOf(fed[i]) = d /\ IsRejectLine(fed[i])})

\* the line matches neither time stamp pattern
StampFails(line) == ~re_date_match(line) /\ ~re_date_rfc3339_match(line)
\* the time stamp is read, the message is none of amavis, and neither
\* re_pf_command nor re_pf_script finds a command and a queue ID
CommandFails(line) ==
    /\ ~StampFails(line)
    /\ ~re_amavis_match(line.msg)
    /\ ~re_pf_command_match(parser, line.msg) /\ ~re_pf_script_match(line.msg)

\* lines_total grows by one, in the whole and for the file started last;
\* lines_considered and the list of files are as before
LinesCounted ==
    /\ results'.lines_total = results.lines_total + 1
    /\ results'.lines_considered = results.lines_considered
    /\ results'.files_index = results.files_index
    /\ Len(results'.files) = Len(results.files)
    /\ \A i \in 1..Len(results.files) :
         results'.files[i] =
            [results.files[i] EXCEPT !.lines_total =
                IF i = Len(results.files) THEN @ + 1 ELSE @]

Blank(r, fields) == [f \in DOMAIN r \ fields |-> r[f]]
SameBut(fields) == Blank(results', fields) = Blank(results, fields)

MapsKept ==
    /\ parser'._rcvd_msgs_qid = parser._rcvd_msgs_qid
    /\ parser'._connection_times = parser._connection_times
    /\ parser'._message_size = parser._message_size

\* what the date bookkeeping does for a line of the date d
DayCounted(d) ==
    LET key == d[1] * 10000 + d[2] * 100 + d[3]
        changed == parser.last_date # d
    IN  /\ results'.days_counted = results.days_counted + (IF changed THEN 1 ELSE 0)
        /\ results'.messages_per_day =
              IF changed /\ parser.zero_fill /\ key \notin DOMAIN results.messages_per_day
              THEN Put(results.messages_per_day, key, NewDay)
              ELSE results.messages_per_day
        /\ parser'.last_date = d

LinesRelay ==
    {RfcLine(DayA, <<8, 0, 2>>, TzZ, FromSizeMsg(222, "ABC123", AddrA, 500)),
     RfcLine(DayA, <<8, 0, 3>>, TzZ, RelayMsg(555, "ABC123", AddrBob, <<5, 2>>, "sent", FALSE)),
     RfcLine(DayA, <<8, 0, 4>>, TzZ, RelayMsg(555, "ABC123", AddrBob, <<1, 2>>, "sent", FALSE)),
     RfcLine(DayA, <<8, 0, 5>>, TzZ, RelayMsg(555, "ABC123", AddrA, <<3, 1>>, "sent", FALSE)),
     RfcLine(DayA, <<8, 0, 6>>, TzZ, RelayMsg(555, "ABC123", AddrBob, <<1, 1>>, "sent", TRUE)),
     RfcLine(DayB, <<8, 0, 7>>, TzZ, RelayMsg(555, "ABC123", AddrBob, <<1, 1>>, "bounced", FALSE)),
     RfcLine(DayA, <<8, 0, 8>>, TzZ, RelayMsg(555, "ABC123", AddrA, <<7, 1>>, "deferred", FALSE))}

OptionsRelay ==
    {[DefaultOptions EXCEPT !.zero_fill = z, !.ignore_case = i] : z, i \in BOOLEAN}
InitRelay == InitWith(OptionsRelay)
NextRelay == Feed(LinesRelay)
SpecRelay == InitRelay /\ [][NextRelay]_vars

IsRelayLine(line, qid) == line.msg.body.kind = "relay" /\ line.msg.qid = qid
IsSentLine(line) == line.msg.body.kind = "relay" /\ line.msg.body.status = "sent"

\* C11: the entry of a queue ID in the pending map (_message_size) is there
\* after the "from=<..>, size=N" line of the queue ID, and a relay line for a
\* queue ID that has an entry deletes it: after that line the queue ID is no
\* longer in the map.  (The map is a dict, so a queue ID never has more than
\* one entry.)
C11_AsStated ==
    [][Fed => \A q \in Qids :
        /\ IsFromSizeLine(StepLine, q) => Has(parser'._message_size, q)
        /\ IsRelayLine(StepLine, q) /\ Has(parser._message_size, q)
              => ~Has(parser'._message_size, q)]_vars

\* the address and the domain a relay line's recipient is filed under
RcptOf(line) == AddrStr(normalize_addr(parser, line.msg.body.to))
RcptDomainOf(line) == Join(LowerAll(line.msg.body.to.labels))

\* C12: a relay line with status "sent" does exactly one of two things.  With
\* "forwarded as" after the status messages_forwarded grows by one and the
\* recipient tables are as before.  Otherwise the entry of the recipient's
\* domain has count + 1, its cumulative delay grows by the delay of the line
\* and its largest delay is the larger of the old one and the delay of the
\* line, the entry of the recipient has count + 1, and messages_forwarded is
\* as before.
C12_AsStated ==
    [][Fed /\ IsSentLine(StepLine) =>
        LET b == StepLine.msg.body
            n == b.delay[1]
            den == b.delay[2]
            dom == RcptDomainOf(StepLine)
            usr == RcptOf(StepLine)
            old == StatOf(results.rcpt_domain, dom)
            new == StatOf(results'.rcpt_domain, dom)
        IN  IF b.forwarded
            THEN /\ results'.messages_forwarded = results.messages_forwarded + 1
                 /\ results'.rcpt_domain = results.rcpt_domain
                 /\ results'.rcpt_user = results.rcpt_user
            ELSE /\ results'.messages_forwarded = results.messages_forwarded
                 /\ new.count = old.count + 1
                 /\ new.delay_avg * den = old.delay_avg * den + n
                 /\ new.delay_max * den =
                       (IF n > old.delay_max * den THEN n ELSE old.delay_max * den)
                 /\ StatOf(results'.rcpt_user, usr).count
                       = StatOf(results.rcpt_user, usr).count + 1]_vars

\* lines_total and lines_considered grow by one, in the whole and for the
\* file started last; the list of files is otherwise as before
LinesConsidered ==
    /\ results'.lines_total = results.lines_total + 1
    /\ results'.lines_considered = results.lines_considered + 1
    /\ results'.files_index = results.files_index
    /\ Len(results'.files) = Len(results.files)
    /\ \A i \in 1..Len(results.files) :
         results'.files[i] =
            [results.files[i] EXCEPT
                !.lines_total = IF i = Len(results.files) THEN @ + 1 ELSE @,
                !.lines_considered = IF i = Len(results.files) THEN @ + 1 ELSE @]

\* C13, as amended: a relay line whose status is not "sent" is counted in
\* lines_total and lines_considered and takes part in the date bookkeeping of
\* every stamped line (days_counted grows by one when its date differs from
\* the date of the last stamped line, and with zero_fill a zeroed per-day
\* record is created for such a date); no other counter, histogram, per-day
\* record, grouped table or correlation map changes.
C13_NotActed ==
    [][Fed /\ StepLine.msg.body.kind = "relay" /\ ~IsSentLine(StepLine) =>
        /\ raised' = "" /\ log_warnings' = log_warnings
        /\ LinesConsidered /\ MapsKept
        /\ SameBut({"lines_total", "lines_considered", "files", "days_counted",
                    "messages_per_day"})
        /\ DayCounted(DateOf(StepLine))]_vars

\* C13 as stated: a relay line whose status is not "sent" changes the line
\* counters and nothing else: no counter, histogram, per-day record, grouped
\* table or correlation map.
C13_AsStated ==
    [][Fed /\ StepLine.msg.body.kind = "relay" /\ ~IsSentLine(StepLine) =>
        /\ raised' = ""
        /\ LinesConsidered /\ MapsKept
        /\ SameBut({"lines_total", "lines_considered", "files"})]_vars

\* a bounced line of a second day has followed the size line and a sent line
C13_Witness ==
    /\ Len(fed) = 3 /\ raised = ""
    /\ IsFromSizeLine(fed[1], "ABC123") /\ IsSentLine(fed[2])
    /\ fed[3].msg.body.kind = "relay" /\ fed[3].msg.body.status = "bounced"
    /\ results.lines_considered = 3 /\ results.days_counted = 2
    /\ Cardinality(DOMAIN results.rcpt_domain) = 1
    /\ Has(parser._message_size, "ABC123")

(***************************************************************************)
(* Warning lines.                                                          *)
(***************************************************************************)
\* "postfix/<cmd>[pid]: warning: <text>"
WarningMsg(cmd, pid, text) == Msg("postfix", cmd, pid, "warning", TextBody(text))

LinesWarn ==
    {RfcLine(DayA, <<8, 0, 1>>, TzZ,
             WarningMsg("smtpd", 111, "hostname x.example.com does not resolve")),
     RfcLine(DayA, <<8, 0, 2>>, TzZ,
             WarningMsg("smtpd", 111, "non-SMTP command from unknown[10.0.0.2]")),
     RfcLine(DayA, <<8, 0, 3>>, TzZ,
             WarningMsg("qmgr", 222, "connect to transport private/foo: refused")),
     RfcLine(DayB, <<8, 0, 4>>, TzZ,
             WarningMsg("smtp", 555, "hostname x.example.com does not resolve")),
     RfcLine(DayB, <<8, 0, 5>>, TzZ, ConnMsg("connect", 111, FooHost))}

OptionsWarn == {[DefaultOptions EXCEPT !.detail_smtpd_warning = d] : d \in BOOLEAN}
InitWarn == InitWith(OptionsWarn)
NextWarn == Feed(LinesWarn)
SpecWarn == InitWarn /\ [][NextWarn]_vars

IsWarningLine(line) == line.msg.qid = "warning" /\ line.msg.body.kind = "text"
WarningCount(r, cmd, text) == Get(Get(r.warnings, cmd, EmptyDict), text, 0)

\* C14: a line with the token "warning" adds one to the count of its text in
\* the warnings table under the name of its subsystem, unless the line is of
\* smtpd and the smtpd-warning detail is switched off; in particular with the
\* default configuration a warning of smtpd is recorded like any other.
C14_AsStated ==
    [][Fed /\ IsWarningLine(StepLine) =>
        LET cmd == StepLine.msg.cmd
            text == StepLine.msg.body.text
        IN  ~(cmd = "smtpd" /\ ~parser.detail_smtpd_warning) =>
               WarningCount(results', cmd, text) = WarningCount(results, cmd, text) + 1]_vars

(***************************************************************************)
(* PostfixLogParser.__init__ with the options that are checked: verbose,   *)
(* compression, syslog_name and verp_mung.  None is NoneVal for a string   *)
(* and NoneArg for a number.                                               *)
(***************************************************************************)
NoneArg == [kind |-> "none", n |-> 0]
valid_compressions == <<"gzip", "bzip2", "xz", "lzma">>
\* str.strip() on the values this model gives
strip(s) == IF s = " " THEN "" ELSE s

\* the object as the first statements of __init__ leave it
init_attributes(today) ==
    __init__(today, DefaultOptions)
        @@ [compression |-> NoneVal, verp_mung |-> NoneArg, initialized |-> FALSE]

\* verbose.setter: a negative level is refused with a warning
verbose_setter(S, value) ==
    IF value >= 0 THEN [S EXCEPT !.parser.verbose = value]
    ELSE [S EXCEPT !.log_warnings = @ + 1]

compression_setter(S, value) ==
    LET v == Lower(strip(value))
    IN  IF value = NoneVal THEN [S EXCEPT !.parser.compression = NoneVal]
        ELSE IF v \notin Range(valid_compressions) THEN Fail(S, "PostfixLogsumsError")
        ELSE IF v = "xz" THEN [S EXCEPT !.parser.compression = "lzma"]
        ELSE [S EXCEPT !.parser.compression = v]

syslog_name_setter(S, value) ==
    IF value = NoneVal THEN Fail(S, "TypeError")
    ELSE IF strip(value) = "" THEN Fail(S, "ValueError")
    ELSE [S EXCEPT !.parser.syslog_name = strip(value)]

verp_mung_setter(S, value) ==
    IF value.kind = "none" THEN [S EXCEPT !.parser.verp_mung = NoneArg]
    ELSE [S EXCEPT !.parser.verp_mung = IntVal(IF value.n < 0 THEN 0 ELSE value.n)]

\* the assignments of __init__ from `self.verbose = verbose` on
init_setters(S, kw) ==
    LET S1 == verbose_setter(S, kw.verbose)
        S2 == compression_setter(S1, kw.compression)
        S3 == syslog_name_setter(S2, kw.syslog_name)
        S4 == verp_mung_setter(S3, kw.verp_mung)
    IN  IF S2.raised # "" THEN S2
        ELSE IF S3.raised # "" THEN S3
        ELSE [S4 EXCEPT !.parser.initialized = TRUE]

\* PostfixLogParser(verbose=.., compression=.., syslog_name=.., verp_mung=..)
\* with the keyword arguments held in stats.call; an exception leaves no parser
Construct ==
    /\ raised = "" /\ stats.ncalls = 0
    /\ LET T == init_setters(State, stats.call.value)
       IN  /\ parser' = T.parser
           /\ raised' = T.raised
           /\ log_warnings' = T.log_warnings
    /\ stats' = [stats EXCEPT !.ncalls = 1]
    /\ UNCHANGED <<results, fed>>

NewVerbose == {-1, 0, 2}
NewCompression == {NoneVal, "gzip", "xz", "zip"}
NewSyslogName == {"postfix", "mail", "", " "}
NewVerpMung == {NoneArg, IntVal(-3), IntVal(2)}
Kwargs ==
    [verbose : NewVerbose, compression : NewCompression, syslog_name : NewSyslogName,
     verp_mung : NewVerpMung]

LinesNew ==
    {RfcLine(DayA, <<8, 0, 1>>, TzZ, WarningMsg("qmgr", 222, "connect to transport: refused")),
     RfcLine(DayA, <<8, 0, 2>>, TzZ,
             Msg("mail", "qmgr", 222, "warning", TextBody("connect to transport: refused"))),
     RfcLine(DayB, <<8, 0, 3>>, TzZ, FromSizeMsg(222, "ABC123", AddrA, 500))}

InitNew ==
    /\ results = reset
    /\ parser = init_attributes(Today)
    /\ raised = ""
    /\ log_warnings = 0
    /\ fed = <<>>
    /\ stats \in {[InitStats EXCEPT
                     !.call = [obj |-> "parser", key |-> "__init__", value |-> kw]] :
                  kw \in Kwargs}
FeedNew == parser.initialized /\ Feed(LinesNew)
NextNew == Construct \/ FeedNew
SpecNew == InitNew /\ [][NextNew]_vars

\* the values the claim calls invalid
InvalidOption(kw) ==
    \/ kw.verbose < 0
    \/ kw.compression # NoneVal /\ Lower(strip(kw.compression)) \notin Range(valid_compressions)
    \/ strip(kw.syslog_name) = ""

\* C15: the constructor called with an unsupported compression name, an
\* empty syslog name or a negative verbosity raises, and no parser comes of
\* it; the parser that comes of a call has the values given, never others in
\* their place.
C15_AsStated ==
    stats.ncalls = 1 =>
        LET kw == stats.call.value
        IN  /\ InvalidOption(kw) => raised # "" /\ ~parser.initialized
            /\ parser.initialized =>
                  /\ parser.verbose = kw.verbose
                  /\ parser.syslog_name = strip(kw.syslog_name)

(***************************************************************************)
(* The per-day table and the lines that update it.                         *)
(***************************************************************************)
LinesLazy ==
    {RfcLine(DayA, <<8, 0, 1>>, TzZ, ClientMsg(111, "ABC123", FooHost, ",/")),
     RfcLine(DayA, <<8, 0, 2>>, TzZ, FromSizeMsg(222, "ABC123", AddrA, 500)),
     RfcLine(DayA, <<8, 0, 3>>, TzZ, CleanupMsg(333, "ABC123", "reject", "header", "Subject: foo")),
     RfcLine(DayB, <<8, 0, 4>>, TzZ, RejectMsg(111, "NOQUEUE", "reject")),
     RfcLine(DayB, <<8, 0, 5>>, TzZ, Msg("kernel", "", 0, "", TextBody("eth0: link up")))}

InitLazy == InitWith(OptionsFill)
NextLazy == Feed(LinesLazy)
SpecLazy == InitLazy /\ [][NextLazy]_vars

DayKey(line) == line.year * 10000 + line.month * 100 + line.day
\* the line goes to a classifier that updates the per-day table
UpdatesDay(line) ==
    \/ line.msg.cmd = "smtpd" /\ re_smtpd_client_match(line.msg)
    \/ re_cmd_cleanup_match(line.msg)
    \/ IsRejectLine(line)

\* C16: without zero_fill a line of a classifier that updates the per-day
\* table (smtpd client announcement, cleanup reject/warning/hold/discard,
\* smtpd reject) succeeds also when its date has no record: the record is
\* then created with all fields zero and one field is incremented.  With
\* zero_fill the date of every stamped line has a record after the line.
C16_AsStated ==
    [][Fed =>
        LET key == DayKey(StepLine)
            old == Get(results.messages_per_day, key, NewDay)
        IN  /\ ~parser.zero_fill /\ UpdatesDay(StepLine) =>
                  /\ raised' = ""
                  /\ Has(results'.messages_per_day, key)
                  /\ \E i \in DOMAIN NewDay :
                        results'.messages_per_day[key] = [old EXCEPT ![i] = @ + 1]
            /\ parser.zero_fill /\ ~StampFails(StepLine) =>
                  Has(results'.messages_per_day, key)]_vars

\* C17: eval_line applies all the updates of a line or none: a call that
\* raises leaves the aggregator and the correlation maps as they were, apart
\* from the line counters and the date bookkeeping that precede the
\* classification.
C17_AsStated ==
    [][Fed /\ raised' # "" =>
        /\ MapsKept
        /\ SameBut({"lines_total", "lines_considered", "files", "days_counted",
                    "messages_per_day"})
        /\ DayCounted(DateOf(StepLine))]_vars

(***************************************************************************)
(* Time stamps: lines of both formats that hold no postfix command.        *)
(***************************************************************************)
KernelMsg == Msg("kernel", "", 0, "", TextBody("eth0: link up"))

\* "Jan 10 08:00:01 mail kernel: eth0: link up" with and without its newline,
\* and "2023-01-10T08:00:01Z mail kernel: eth0: link up" with the offsets
\* Z, +02:00, -05:00, -05:30, +05:30 and +00:30
LinesStamp ==
    {TradLine("LF", "Jan", 10, <<8, 0, 1>>, KernelMsg),
     TradLine("", "Jun", 15, <<23, 59, 59>>, KernelMsg),
     TradLine("LF", "Jul", 1, <<0, 0, 0>>, KernelMsg),
     TradLine("", "Dec", 31, <<12, 30, 0>>, KernelMsg),
     RfcLine(DayA, <<8, 0, 1>>, TzZ, KernelMsg),
     RfcLine(DayA, <<23, 59, 58>>, TzOff(2, 0), KernelMsg),
     RfcLine(DayB, <<0, 0, 3>>, TzOff(-5, 0), KernelMsg),
     RfcLine(DayB, <<12, 30, 0>>, TzOff(-5, 30), KernelMsg),
     RfcLine(DayA, <<12, 30, 0>>, TzOff(5, 30), KernelMsg),
     RfcLine(DayB, <<6, 0, 0>>, TzOff(0, 30), KernelMsg)}

InitStamp == InitWith(OptionsFill)
NextStamp == Feed(LinesStamp)
SpecStamp == InitStamp /\ [][NextStamp]_vars

\* the wall-clock fields of the time stamp kept for the line of the step
ClockKept(y, mo) ==
    /\ raised' = "" /\ parser'.has_cur_ts
    /\ parser'._cur_ts.year = y /\ parser'._cur_ts.month = mo
    /\ parser'._cur_ts.day = StepLine.day /\ parser'._cur_ts.hour = StepLine.hour
    /\ parser'._cur_ts.minute = StepLine.minute
    /\ parser'._cur_ts.second = StepLine.second

\* C18: a line "Mon DD HH:MM:SS host message" is accepted by the time stamp
\* extractor, and the time stamp taken from it has the month, day, hour,
\* minute and second of the line; its year is the current year, or the year
\* before when the number of the month is greater than that of the current
\* month.
C18_AsStated ==
    [][Fed /\ StepLine.stamp = "trad" =>
        LET mo == month_nums[StepLine.month_str]
            y == IF mo > parser.this_month THEN parser.this_year - 1
                 ELSE parser.this_year
        IN  ClockKept(y, mo)]_vars

\* the offset written as +HH:MM or -HH:MM, in seconds: the sign is that of
\* the whole offset
WrittenOffset(line) ==
    IF line.tz_hours < 0 THEN -((-line.tz_hours) * 3600 + line.tz_mins * 60)
    ELSE line.tz_hours * 3600 + line.tz_mins * 60

\* C19: the time stamp taken from an RFC3339 line has the wall-clock fields
\* of the line, and its UTC offset is the offset written, the sign applied to
\* the hours and the minutes together; "Z" gives the offset zero.
C19_AsStated ==
    [][Fed /\ StepLine.stamp = "rfc" =>
        /\ ClockKept(StepLine.year, StepLine.month)
        /\ parser'._cur_ts.utcoffset =
              (IF StepLine.tz = "Z" THEN 0 ELSE WrittenOffset(StepLine))]_vars

(***************************************************************************)
(* gimme_domain, as the smtpd client announcement uses it.                 *)
(***************************************************************************)
\* "postfix/smtpd[111]: <qid>: client=<host>,/.." for the hosts
\* foo.example.com[10.0.0.1], unknown[10.0.0.2], MX.Example.COM[10.0.0.3],
\* example.org[10.0.0.4], a.b.example.com[10.0.0.5] and localhost
HostsDom ==
    {FooHost, UnknownHost,
     Host(<<"MX", "Example", "COM">>, "[", "10.0.0.3", TRUE),
     Host(<<"example", "org">>, "[", "10.0.0.4", TRUE),
     Host(<<"a", "b", "example", "com">>, "[", "10.0.0.5", TRUE),
     Host(<<"localhost">>, "", "", FALSE)}
LinesDom ==
    {RfcLine(DayA, <<8, 0, 1>>, TzZ, ClientMsg(111, "ABC123", h, ",/")) : h \in HostsDom}

OptionsDom == {[DefaultOptions EXCEPT !.zero_fill = TRUE]}
InitDom == InitWith(OptionsDom)
NextDom == Feed(LinesDom)
SpecDom == InitDom /\ [][NextDom]_vars

\* the last two labels of a name of three or more labels, else the name
LastTwo(labels) ==
    IF Len(labels) >= 3 THEN SubSeq(labels, Len(labels) - 1, Len(labels)) ELSE labels

\* C20: gimme_domain on "name[ip]" gives the ip when the name is "unknown",
\* and otherwise the name in lower case, a name of three or more labels cut
\* down to its last two labels; a token of no such form gives None.  The
\* client announcement keeps the result under the queue ID of the line.
C20_AsStated ==
    [][Fed /\ IsClientLine(StepLine, "ABC123") /\ raised' = "" =>
        LET h == StepLine.msg.body.host
        IN  parser'._rcvd_msgs_qid["ABC123"] =
              (IF ~(h.br = "[" /\ h.quad) THEN NoneVal
               ELSE IF Join(h.labels) = "unknown" THEN h.ip
               ELSE Join(LowerAll(LastTwo(h.labels))))]_vars

(***************************************************************************)
(* stats.BaseMessageStats: the constructor and the access by key.  A key   *)
(* is a name or an integer position; a mapping is the sequence of its      *)
(* (key, value) pairs in the order of the dict.                            *)
(***************************************************************************)
NameKey(s) == [kind |-> "name", name |-> s, pos |-> 0]
PosKey(i) == [kind |-> "pos", name |-> "", pos |-> i]
NoneValue == [kind |-> "none", n |-> 0]

\* the exception classes of errors.py, all of them PostfixLogsumsError
PostfixLogsumsErrors ==
    {"PostfixLogsumsError", "StatsError", "WrongMsgStatsKeyError",
     "WrongMsgStatsHourError", "MsgStatsHourValNotfoundError",
     "MsgStatsHourInvalidMethodError"}
\* the classes stats.py imports from errors.py that errors.py does not hold
MissingErrors ==
    {"WrongMsgStatsAttributeError", "WrongMsgStatsValueError", "WrongMsgPerDayKeyError"}
IsPostfixLogsumsError(e) == e \in PostfixLogsumsErrors \cup MissingErrors

\* `if isinstance(key, int) and key >= 0 and key < len(self.valid_keys)`
resolve_key(key) ==
    IF key.kind = "pos" /\ key.pos >= 0 /\ key.pos < Len(valid_keys)
    THEN NameKey(valid_keys[key.pos + 1]) ELSE key
key_is_valid(key) == key.kind = "name" /\ key.name \in Range(valid_keys)

\* mapping[key]: the value of the pair with this key
mapping_has(mapping, key) == \E i \in DOMAIN mapping : mapping[i][1] = key
mapping_get(mapping, key) ==
    mapping[CHOOSE i \in DOMAIN mapping : mapping[i][1] = key][2]

\* _update_from_mapping from the i-th key on: the _values dict and the exception
RECURSIVE update_from(_, _, _)
update_from(values, mapping, i) ==
    IF i > Len(mapping) THEN [values |-> values, exc |-> ""]
    ELSE LET key == resolve_key(mapping[i][1])
         IN  IF ~key_is_valid(key)
             THEN [values |-> values, exc |-> "WrongMsgStatsKeyError"]
             \* mapping[key] with the key as resolved
             ELSE IF ~mapping_has(mapping, key)
             THEN [values |-> values, exc |-> "KeyError"]
             ELSE LET value == mapping_get(mapping, key)
                      exc == bms_setattr_exc(key.name, value)
                  IN  IF exc # "" THEN [values |-> values, exc |-> exc]
                      ELSE update_from(bms_setattr(values, key.name, value),
                                       mapping, i + 1)
_update_from_mapping(values, mapping) == update_from(values, mapping, 1)

\* first_param: None, a mapping, or an object that is neither
NoFirst == [kind |-> "none", items |-> <<>>]
OtherFirst == [kind |-> "other", items |-> <<>>]
MappingFirst(items) == [kind |-> "mapping", items |-> items]

\* BaseMessageStats(first_param, **kwargs): the _values dict and the exception
bms_init(first_param, kwargs) ==
    LET r1 == IF first_param.kind = "mapping"
              THEN _update_from_mapping(EmptyDict, first_param.items)
              ELSE IF first_param.kind = "other"
              THEN [values |-> EmptyDict, exc |-> "StatsError"]
              ELSE [values |-> EmptyDict, exc |-> ""]
    IN  IF r1.exc # "" \/ kwargs = <<>> THEN r1
        ELSE _update_from_mapping(r1.values, kwargs)

\* _get_item, behind get() and __getitem__: the value and the exception
bms_get_item(values, key) ==
    LET k == resolve_key(key)
    IN  IF ~key_is_valid(k) THEN [value |-> 0, exc |-> "WrongMsgStatsKeyError"]
        ELSE [value |-> bms_getattr(values, k.name), exc |-> ""]

\* __setitem__ with the positions counted from the other end
bms_setitem_reversed(values, key, value) ==
    LET k == IF key.kind = "pos" /\ key.pos >= 0 /\ key.pos < Len(valid_keys)
             THEN NameKey(valid_keys[Len(valid_keys) - key.pos]) ELSE key
    IN  IF ~key_is_valid(k) THEN [values |-> values, exc |-> "WrongMsgStatsKeyError"]
        ELSE [values |-> bms_setattr(values, k.name, value),
              exc |-> bms_setattr_exc(k.name, value)]

\* __setitem__, behind set(): the _values dict and the exception
bms_setitem(values, key, value) ==
    LET k == resolve_key(key)
    IN  IF ~key_is_valid(k) THEN [values |-> values, exc |-> "WrongMsgStatsKeyError"]
        ELSE [values |-> bms_setattr(values, k.name, value),
              exc |-> bms_setattr_exc(k.name, value)]

\* keys(): a copy of valid_keys
bms_keys == valid_keys

\* bms = BaseMessageStats(first_param, **kwargs); an exception leaves bms as
\* it was
BmsNew(first_param, kwargs) ==
    /\ stats.ncalls < MaxCalls
    /\ LET r == bms_init(first_param, kwargs)
       IN  stats' = [stats EXCEPT
                        !.bms = IF r.exc = "" THEN r.values ELSE @,
                        !.call = [obj |-> "bms", key |-> "__init__",
                                  value |-> [first_param |-> first_param,
                                             kwargs |-> kwargs]],
                        !.exc = r.exc, !.ncalls = @ + 1]
    /\ UNCHANGED <<results, parser, raised, log_warnings, fed>>

\* bms[key] = value
BmsSetItem(key, value) ==
    /\ stats.ncalls < MaxCalls
    /\ LET r == bms_setitem(stats.bms, key, value)
       IN  stats' = [stats EXCEPT
                        !.bms = r.values,
                        !.call = [obj |-> "bms", key |-> "__setitem__",
                                  value |-> [key |-> key, value |-> value]],
                        !.exc = r.exc, !.ncalls = @ + 1]
    /\ UNCHANGED <<results, parser, raised, log_warnings, fed>>

\* bms.<name> = value
BmsSetName(name, value) ==
    /\ stats.ncalls < MaxCalls
    /\ stats' = [stats EXCEPT
                    !.bms = bms_setattr(@, name, value),
                    !.call = [obj |-> "bms", key |-> "__setattr__",
                              value |-> [key |-> NameKey(name), value |-> value]],
                    !.exc = bms_setattr_exc(name, value), !.ncalls = @ + 1]
    /\ UNCHANGED <<results, parser, raised, log_warnings, fed>>

BmsValues == {IntVal(-1), IntVal(3), IntVal(5), StrVal, NoneValue}
BmsKeys ==
    {NameKey("value_one"), NameKey("value_two"), NameKey("bla"), PosKey(0), PosKey(1),
     PosKey(2)}
\* the mappings given as first_param: {}, dicts of one pair, and
\* {'value_one': 3, 'value_two': v}
BmsMappings ==
    {<<>>} \cup {<< <<k, v>> >> :
                    k \in {NameKey("value_one"), NameKey("bla"), PosKey(1), PosKey(2)},
                    v \in BmsValues}
           \cup {<< <<NameKey("value_one"), IntVal(3)>>, <<NameKey("value_two"), v>> >> :
                    v \in {IntVal(5), IntVal(-1)}}
BmsFirsts == {NoFirst, OtherFirst} \cup {MappingFirst(m) : m \in BmsMappings}
BmsKwargs ==
    {<<>>, << <<NameKey("uhu"), IntVal(3)>> >>}
        \cup {<< <<NameKey("value_two"), v>> >> : v \in {IntVal(3), IntVal(-1), StrVal}}

InitBms == InitWith({DefaultOptions})
NewCall == \E first_param \in BmsFirsts, kwargs \in BmsKwargs : BmsNew(first_param, kwargs)
SetItemCall == \E key \in BmsKeys, value \in BmsValues : BmsSetItem(key, value)
SetNameCall == \E name \in SetNames, value \in BmsValues : BmsSetName(name, value)
NextBms == NewCall \/ SetItemCall \/ SetNameCall
SpecBms == InitBms /\ [][NextBms]_vars

\* a pair the claim calls invalid: a key that is none of valid_keys, a value
\* that int() does not convert, a negative value
InvalidPair(pair) ==
    \/ ~key_is_valid(resolve_key(pair[1]))
    \/ pair[2].kind # "int"
    \/ pair[2].n < 0
InvalidArgs(a) ==
    \/ a.first_param.kind = "other"
    \/ \E i \in DOMAIN a.first_param.items : InvalidPair(a.first_param.items[i])
    \/ \E i \in DOMAIN a.kwargs : InvalidPair(a.kwargs[i])

\* C21: BaseMessageStats(...) with a first argument that is no mapping, with
\* a key (of the mapping or a keyword) that is none of valid_keys, with a
\* value that is not convertible to an integer or with a negative value
\* raises an error that is a PostfixLogsumsError, and no object comes of it.
C21_AsStated ==
    [][stats'.ncalls # stats.ncalls /\ stats'.call.key = "__init__"
          /\ InvalidArgs(stats'.call.value) =>
        IsPostfixLogsumsError(stats'.exc) /\ stats'.bms = stats.bms]_vars

\* what the three forms read for the i-th key: bms.<name>, bms['<name>'], bms[i-1]
Reads(values, i) ==
    <<bms_getattr(values, valid_keys[i]),
      bms_get_item(values, NameKey(valid_keys[i])).value,
      bms_get_item(values, PosKey(i - 1)).value>>
KeyPlaces == 1..Len(valid_keys)

\* the step is a write through one of the three forms; its key and value
WriteStep ==
    stats'.ncalls # stats.ncalls /\ stats'.call.key \in {"__setitem__", "__setattr__"}
NamesCell(key) ==
    \/ key.kind = "name" /\ \E j \in KeyPlaces : valid_keys[j] = key.name
    \/ key.kind = "pos" /\ key.pos + 1 \in KeyPlaces
CellOf(key) ==
    IF key.kind = "pos" THEN key.pos + 1
    ELSE CHOOSE j \in KeyPlaces : valid_keys[j] = key.name

\* C22: attribute access, access by key name and access by position read and
\* write the same cell.  A fresh object reads 0 for every key in all three
\* forms and keys() is valid_keys.  After a write of a number >= 0 through
\* any form all three forms read that number for the key written and what
\* they read for the other keys is as before; a write that is refused (a key
\* that names no cell, a value that is no number >= 0) raises and changes
\* nothing that is read.
C22_SameCell ==
    /\ [](/\ bms_keys = valid_keys
          /\ stats.ncalls = 0 => \A i \in KeyPlaces : Reads(stats.bms, i) = <<0, 0, 0>>
          /\ \A i \in KeyPlaces :
                /\ bms_get_item(stats.bms, NameKey(valid_keys[i])).exc = ""
                /\ bms_get_item(stats.bms, PosKey(i - 1)).exc = "")
    /\ [][WriteStep =>
            LET key == stats'.call.value.key
                value == stats'.call.value.value
            IN  IF NamesCell(key) /\ value.kind = "int" /\ value.n >= 0
                THEN /\ stats'.exc = ""
                     /\ Reads(stats'.bms, CellOf(key)) = <<value.n, value.n, value.n>>
                     /\ \A i \in KeyPlaces \ {CellOf(key)} :
                           Reads(stats'.bms, i) = Reads(stats.bms, i)
                ELSE /\ stats'.exc # ""
                     /\ \A i \in KeyPlaces : Reads(stats'.bms, i) = Reads(stats.bms, i)]_vars

\* value_one was written by name, value_two by position, and a write of a
\* negative number by position has been refused
C22_Witness ==
    /\ stats.ncalls = 3 /\ stats.call.key = "__setitem__"
    /\ stats.call.value = [key |-> PosKey(1), value |-> IntVal(-1)]
    /\ stats.exc = "WrongMsgStatsValueError"
    /\ Reads(stats.bms, 1) = <<3, 3, 3>> /\ Reads(stats.bms, 2) = <<5, 5, 5>>

(***************************************************************************)
(* stats.HourlyStats used on its own.                                      *)
(***************************************************************************)
\* the positional parameters each method declares besides self
hs_params ==
    [__setitem__ |-> 2, __delitem__ |-> 1, insert |-> 2, append |-> 1, reverse |-> 0,
     extend |-> 1, pop |-> 1, remove |-> 1, __iadd__ |-> 1]
hs_invalid_methods ==
    {"__delitem__", "insert", "append", "extend", "pop", "remove", "__iadd__"}

\* HourlyStats.__setitem__(hour, value): the exception raised
hs_setitem_exc(hour, value) ==
    IF value.kind = "none" THEN "TypeError"
    ELSE IF value.kind # "int" THEN "WrongMsgStatsValueError"
    ELSE IF value.n < 0 THEN "WrongMsgStatsValueError"
    \* self._list[hour]
    ELSE IF hour >= HOURS_PER_DAY \/ hour < -HOURS_PER_DAY THEN "IndexError"
    ELSE ""
hs_setitem(list, hour, value) ==
    IF hs_setitem_exc(hour, value) # "" THEN list
    ELSE [list EXCEPT ![(IF hour < 0 THEN hour + HOURS_PER_DAY ELSE hour) + 1] = value.n]
hs_reverse(list) == [i \in 1..Len(list) |-> list[Len(list) + 1 - i]]

\* one method call with nargs positional arguments: the _list and the exception
hs_call(list, method, args) ==
    IF args.nargs # hs_params[method] THEN [list |-> list, exc |-> "TypeError"]
    ELSE IF method \in hs_invalid_methods
    THEN [list |-> list, exc |-> "MsgStatsHourInvalidMethodError"]
    ELSE IF method = "reverse" THEN [list |-> hs_reverse(list), exc |-> ""]
    ELSE [list |-> hs_setitem(list, args.hour, args.value),
          exc |-> hs_setitem_exc(args.hour, args.value)]

HsArgs(nargs, hour, value) == [nargs |-> nargs, hour |-> hour, value |-> value]
HsCall(method, args) ==
    /\ stats.ncalls < MaxCalls
    /\ LET r == hs_call(stats.hourly, method, args)
       IN  stats' = [stats EXCEPT
                        !.hourly = r.list,
                        !.call = [obj |-> "hourly", key |-> method, value |-> args],
                        !.exc = r.exc, !.ncalls = @ + 1]
    /\ UNCHANGED <<results, parser, raised, log_warnings, fed>>

HsHours == {0, 23, 24}
HsValues == {IntVal(-1), IntVal(2), IntVal(7), StrVal}
InitHour == InitWith({DefaultOptions})
HsAssign == \E hour \in HsHours, value \in HsValues : HsCall("__setitem__", HsArgs(2, hour, value))
HsReverse == HsCall("reverse", HsArgs(0, 0, IntVal(0)))
\* h.insert(0, 2), del h[0], h.append(2), h.extend(..), h.remove(2), h += ..,
\* h.pop(0)
HsInvalid ==
    \E method \in hs_invalid_methods :
        HsCall(method, HsArgs(hs_params[method], 0, IntVal(2)))
\* h.pop(), as a sequence is popped
HsPopLast == HsCall("pop", HsArgs(0, 0, IntVal(0)))
NextHour == HsAssign \/ HsReverse \/ HsInvalid \/ HsPopLast
SpecHour == InitHour /\ [][NextHour]_vars

HourStep == stats'.ncalls # stats.ncalls /\ stats'.call.obj = "hourly"
\* C23: a HourlyStats always holds exactly 24 entries, each an integer >= 0;
\* every call of a length-changing operation (delete, insert, append, extend,
\* pop, remove, +=) raises MsgStatsHourInvalidMethodError and leaves the
\* contents unchanged, and the assignment of a negative value raises and
\* leaves the slot unchanged.
C23_AsStated ==
    /\ [](/\ Len(stats.hourly) = HOURS_PER_DAY
          /\ \A i \in 1..Len(stats.hourly) : stats.hourly[i] \in Nat)
    /\ [][HourStep /\ stats'.call.key \in hs_invalid_methods =>
            /\ stats'.exc = "MsgStatsHourInvalidMethodError"
            /\ stats'.hourly = stats.hourly]_vars
    /\ [][HourStep /\ stats'.call.key = "__setitem__" /\ stats'.call.value.value.n < 0 =>
            stats'.exc # "" /\ stats'.hourly = stats.hourly]_vars

(***************************************************************************)
(* The dispatch of eval_command_msg.                                       *)
(***************************************************************************)
LinesDisp ==
    {RfcLine(DayA, <<8, 0, 1>>, TzZ, WarningMsg("smtpd", 111, "hostname x does not resolve")),
     RfcLine(DayA, <<8, 0, 2>>, TzZ, WarningMsg("master", 1, "process smtpd pid 111 killed")),
     RfcLine(DayA, <<8, 0, 3>>, TzZ, WarningMsg("cleanup", 333, "milter: connection refused")),
     RfcLine(DayA, <<8, 0, 4>>, TzZ,
             Msg("postfix", "master", 1, "daemon", TextBody("started -- version 3.5"))),
     RfcLine(DayA, <<8, 0, 5>>, TzZ, Msg("postfix", "master", 1, "fatal", TextBody("bind: in use"))),
     RfcLine(DayA, <<8, 0, 6>>, TzZ, Msg("postfix", "smtpd", 111, "panic", TextBody("bad state"))),
     RfcLine(DayA, <<8, 0, 7>>, TzZ, ConnMsg("connect", 111, FooHost)),
     RfcLine(DayA, <<8, 0, 8>>, TzZ, RejectMsg(111, "reject", "reject")),
     RfcLine(DayA, <<8, 0, 9>>, TzZ, CleanupMsg(333, "warning", "warning", "header", "Subject: foo")),
     RfcLine(DayA, <<8, 1, 1>>, TzZ, FromSizeMsg(222, "ABC123", AddrA, 500))}

OptionsDisp == {[DefaultOptions EXCEPT !.zero_fill = TRUE, !.smtpd_stats = TRUE]}
InitDisp == InitWith(OptionsDisp)
NextDisp == Feed(LinesDisp)
SpecDisp == InitDisp /\ [][NextDisp]_vars

\* the line is one eval_line considers: it reaches eval_command_msg
Considered(S, line) ==
    /\ ~(S.parser.re_date_filter /\ ~date_filter_match(S.parser, line))
    /\ _eval_msg_ts(S.parser, line).exc = "" /\ _eval_msg_ts(S.parser, line).ok
    /\ ~re_amavis_match(_eval_msg_ts(S.parser, line).msg)
    /\ _eval_pf_command(S.parser, _eval_msg_ts(S.parser, line).msg).ok
\* the parser as eval_command_msg finds it for such a line
BeforeCommand(S, line) ==
    LET result == _eval_msg_ts(S.parser, line)
        cmd == _eval_pf_command(S.parser, result.msg)
        S1 == [S EXCEPT !.results = incr_lines_total(@),
                        !.parser.has_cur_ts = TRUE,
                        !.parser._cur_ts = result.ts,
                        !.parser._cur_msg = result.msg]
    IN  [count_day(S1) EXCEPT !.parser._cur_pf_command = cmd.cmd,
                              !.parser._cur_qid = cmd.qid,
                              !.results = incr_lines_considered(@)]
StateAfter ==
    [results |-> results', parser |-> parser', raised |-> raised',
     log_warnings |-> log_warnings']
\* what the connection classifier and the master branch write
ConnectionPart(S) ==
    <<S.results.connections_total, S.results.connections_time,
      S.results.smtpd_per_day, S.results.smtpd_per_domain,
      S.results.smtpd_messages_per_hour,
      S.parser._connection_times>>
MasterPart(S) == <<S.results.messages.master, S.results.master_msgs>>

\* C24: a considered line goes to exactly one handler, the token before the
\* subsystem: a cleanup line with a reject/warning/hold/discard header/body
\* marker to the cleanup handler; else the token warning, fatal, panic,
\* reject, reject_warning, hold, discard to its handler whatever the
\* subsystem; else subsystem master to the master count, smtpd to the
\* connection/client classifier, anything else to the delivery classifier.
\* An smtpd or master line with the token warning is neither counted as a
\* master message nor handled by the connection classifier.
C24_TokenFirst ==
    [][Fed /\ Considered(State, StepLine) =>
        LET S == BeforeCommand(State, StepLine)
            p == S.parser
            msg == p._cur_msg
            qid == p._cur_qid
            marker == p._cur_pf_command = "cleanup" /\ re_cmd_cleanup_match(msg)
            token == qid \in {"warning", "fatal", "panic", "reject", "reject_warning",
                              "hold", "discard"}
            T == StateAfter
        IN  /\ marker =>
                T = _eval_cleanup_cmd(S, msg.body.subtype, msg.body.part, msg.body)
            /\ ~marker /\ qid = "warning" =>
                /\ T = _eval_warning_cmd(S)
                /\ ConnectionPart(T) = ConnectionPart(S) /\ MasterPart(T) = MasterPart(S)
            /\ ~marker /\ qid = "fatal" => T = _eval_fatal_cmd(S)
            /\ ~marker /\ qid = "panic" => T = _eval_panic_cmd(S)
            /\ ~marker /\ qid = "reject" =>
                T = proc_smtpd_reject(S, S.results.messages.rejected)
            /\ ~marker /\ qid = "reject_warning" =>
                T = proc_smtpd_reject(S, S.results.messages.warning)
            /\ ~marker /\ qid = "hold" => T = proc_smtpd_reject(S, S.results.messages.hold)
            /\ ~marker /\ qid = "discard" =>
                T = proc_smtpd_reject(S, S.results.messages.discard)
            /\ ~marker /\ ~token /\ p._cur_pf_command = "master" =>
                /\ T = eval_master_msg(S)
                /\ MasterPart(T) # MasterPart(S)
            /\ ~marker /\ ~token /\ p._cur_pf_command = "smtpd" => T = eval_smtpd_msg(S)
            /\ ~marker /\ ~token /\ p._cur_pf_command \notin {"master", "smtpd"} =>
                T = eval_other_msg(S)]_vars

\* a warning of master and a warning of smtpd have been handled, as warnings:
\* no master message and no connection is counted
C24_Witness ==
    /\ raised = ""
    /\ \E i, j \in 1..Len(fed) :
          /\ fed[i].msg.cmd = "master" /\ fed[i].msg.qid = "warning"
          /\ fed[j].msg.cmd = "smtpd" /\ fed[j].msg.qid = "warning"
    /\ Has(results.warnings, "master")
    /\ results.messages.master = 0 /\ results.connections_total = 0

(***************************************************************************)
(* parse(): the files of one call, one after the other.                    *)
(***************************************************************************)
\* parse() up to its first file: results.reset(), results.start_logfile(logfile)
ParseFirst(logfile) ==
    /\ raised = ""
    /\ stats.ncalls < MaxCalls
    /\ results' = start_logfile(reset, logfile)
    /\ stats' = [stats EXCEPT !.ncalls = @ + 1]
    /\ UNCHANGED <<parser, raised, log_warnings, fed>>

LinesFiles ==
    {RfcLine(DayA, <<8, 0, 1>>, TzZ, RejectMsg(111, "NOQUEUE", "reject")),
     RfcLine(DayA, <<9, 0, 1>>, TzZ, KernelMsg),
     JunkLine}
LogfilesParse == {"mail.log.1", "mail.log"}

InitFiles == InitWith({[DefaultOptions EXCEPT !.zero_fill = TRUE]})
ParseCalled == \E logfile \in LogfilesParse : ParseFirst(logfile)
\* the loop of parse() reaches its next file
FileStarted == stats.ncalls > 0 /\ \E logfile \in LogfilesParse : StartLogfile(logfile)
\* parse_fh reads a line of the file
LineRead == stats.ncalls > 0 /\ Feed(LinesFiles)
NextFiles == ParseCalled \/ FileStarted \/ LineRead
SpecFiles == InitFiles /\ [][NextFiles]_vars

RECURSIVE SumOf(_, _)
SumOf(files, n) == IF n = 0 THEN <<0, 0>>
                   ELSE <<SumOf(files, n - 1)[1] + files[n].lines_total,
                          SumOf(files, n - 1)[2] + files[n].lines_considered>>

\* C25: the files of one parse() are entered in the order they are started
\* and every line is counted for the file started last: a line changes the
\* counters of the last entry only, a new file leaves the entries before it
\* as they are.  In every reachable state the per-file lines_total add up to
\* the global lines_total and the per-file lines_considered to the global
\* lines_considered.
C25_PerFile ==
    /\ [](SumOf(results.files, Len(results.files))
              = <<results.lines_total, results.lines_considered>>)
    /\ [][Fed =>
            LET n == Len(results.files)
            IN  /\ Len(results'.files) = n
                /\ \A i \in 1..(n - 1) : results'.files[i] = results.files[i]
                /\ results'.files[n].file = results.files[n].file
                /\ results'.files[n].lines_total = results.files[n].lines_total + 1
                /\ results'.files[n].lines_considered - results.files[n].lines_considered
                      = results'.lines_considered - results.lines_considered]_vars
    /\ [][results'.files # results.files /\ ~Fed /\ stats'.ncalls = stats.ncalls =>
            /\ Len(results'.files) = Len(results.files) + 1
            /\ \A i \in 1..Len(results.files) : results'.files[i] = results.files[i]]_vars

\* two files of one parse(): the first with a counted and an uncounted line,
\* the second with a counted line
C25_Witness ==
    /\ Len(results.files) = 2 /\ raised = ""
    /\ results.files[1].lines_total = 2 /\ results.files[1].lines_considered = 1
    /\ results.files[2].lines_total = 1 /\ results.files[2].lines_considered = 1
    /\ results.lines_total = 3 /\ results.lines_considered = 2

(***************************************************************************)
(* parse() as a whole, called again on the same parser.                    *)
(***************************************************************************)
\* parse_fh: eval_line for the lines of a file from the i-th on; an exception
\* leaves the loop
RECURSIVE parse_fh(_, _, _)
parse_fh(S, lines, i) ==
    IF i > Len(lines) \/ S.raised # "" THEN S
    ELSE parse_fh(eval_line(S, lines[i]), lines, i + 1)

\* the loop of parse() over its files from the i-th on; a file is its name
\* and its lines
RECURSIVE parse_files(_, _, _)
parse_files(S, files, i) ==
    IF i > Len(files) \/ S.raised # "" THEN S
    ELSE parse_files(
            parse_fh([S EXCEPT !.results = start_logfile(@, files[i].name)],
                     files[i].lines, 1),
            files, i + 1)

parse(S, files) == parse_files([S EXCEPT !.results = reset], files, 1)

Parse(files) ==
    /\ raised = ""
    /\ stats.ncalls < MaxCalls
    /\ LET T == parse(State, files)
       IN  /\ results' = T.results
           /\ parser' = T.parser
           /\ raised' = T.raised
           /\ log_warnings' = T.log_warnings
    /\ stats' = [stats EXCEPT !.call = [obj |-> "parser", key |-> "parse",
                                        value |-> files],
                              !.ncalls = @ + 1]
    /\ UNCHANGED fed

Logfile(name, lines) == [name |-> name, lines |-> lines]
\* a stamped line of either day, a connect and a disconnect of one smtpd
\* process, the announcement of a client and the size line of its message
LogfilesSession ==
    {Logfile("mail.log", lines) :
        lines \in {<<>>,
                   <<RfcLine(DayA, <<9, 0, 1>>, TzZ, KernelMsg)>>,
                   <<RfcLine(DayB, <<9, 0, 1>>, TzZ, KernelMsg)>>,
                   <<RfcLine(DayA, <<8, 0, 1>>, TzZ, ConnMsg("connect", 111, FooHost))>>,
                   <<RfcLine(DayA, <<8, 0, 9>>, TzZ, ConnMsg("disconnect", 111, FooHost))>>,
                   <<RfcLine(DayA, <<8, 0, 2>>, TzZ, ClientMsg(111, "ABC123", FooHost, ",/"))>>,
                   <<RfcLine(DayA, <<8, 0, 3>>, TzZ, FromSizeMsg(222, "ABC123", AddrA, 500))>>}}
ParseInputs == UNION {[1..n -> LogfilesSession] : n \in 1..MaxFiles}

InitSession == InitWith({[DefaultOptions EXCEPT !.zero_fill = TRUE, !.smtpd_stats = TRUE]})
\* the first call of parse()
ParseOnce == stats.ncalls = 0 /\ \E files \in ParseInputs : Parse(files)
\* a further call with the files of the call before
ParseAgain == stats.ncalls > 0 /\ Parse(stats.call.value)
NextSession == ParseOnce \/ ParseAgain
SpecSession == InitSession /\ [][NextSession]_vars

\* C26: every call of parse() starts from empty queue-ID and PID maps and
\* from no remembered last date, so that a second call of parse() on the same
\* parser with the same files leaves the aggregator as the first call left it.
C26_AsStated ==
    [][stats.ncalls > 0 /\ stats'.ncalls = stats.ncalls + 1
          /\ stats'.call.value = stats.call.value =>
            results' = results]_vars

(***************************************************************************)
(* Size lines for a queue ID whose size is recorded.                       *)
(***************************************************************************)
LinesSize ==
    {RfcLine(DayA, <<8, 0, 1>>, TzZ, ClientMsg(111, "ABC123", FooHost, ",/")),
     RfcLine(DayA, <<8, 0, 2>>, TzZ, FromSizeMsg(222, "ABC123", AddrA, 500)),
     RfcLine(DayA, <<8, 0, 3>>, TzZ, FromSizeMsg(222, "ABC123", AddrBob, 700)),
     RfcLine(DayA, <<8, 0, 4>>, TzZ, FromSizeMsg(222, "DEF456", AddrA, 300))}
OptionsSize ==
    {[DefaultOptions EXCEPT !.zero_fill = TRUE, !.extended = e] : e \in BOOLEAN}
InitSize == InitWith(OptionsSize)
NextSize == Feed(LinesSize)
SpecSize == InitSize /\ [][NextSize]_vars

IsSizeLine(line) == line.msg.body.kind = "fromsize"
\* what a size line may write
SizePart ==
    <<parser._message_size, parser._rcvd_msgs_qid, results.sending_domain_data,
      results.sender_domain_count, results.sending_user_data, results.sending_user_count,
      results.received_size, results.message_details>>

\* C27: a "from=<addr>, size=N" line for a queue ID whose size is already
\* recorded is ignored: the recorded size is not overwritten and no
\* sending-domain, sending-user, received_size, message_details or
\* client-domain-map entry changes.
C27_Ignored ==
    [][Fed /\ IsSizeLine(StepLine) /\ Has(parser._message_size, StepLine.msg.qid) =>
            raised' = "" /\ SizePart' = SizePart]_vars

\* the size 500 of ABC123 was recorded before its client was announced; the
\* line with size 700 that came after the announcement has changed nothing
C27_Witness ==
    /\ Len(fed) = 3 /\ raised = ""
    /\ IsSizeLine(fed[1]) /\ fed[1].msg.body.size = 500 /\ fed[1].msg.qid = "ABC123"
    /\ fed[2].msg.body.kind = "client"
    /\ IsSizeLine(fed[3]) /\ fed[3].msg.body.size = 700 /\ fed[3].msg.qid = "ABC123"
    /\ parser._message_size["ABC123"] = 500
    /\ Has(parser._rcvd_msgs_qid, "ABC123")
    /\ results.received_size = 0

\* C28: in every reachable state each distinct-count total is the number of
\* keys of its map: sender_domain_count of sending_domain_data,
\* sending_user_count of sending_user_data, rcpt_domain_count of rcpt_domain
\* and rcpt_user_count of rcpt_user.
C28_AsStated ==
    /\ results.sender_domain_count = Cardinality(DOMAIN results.sending_domain_data)
    /\ results.sending_user_count = Cardinality(DOMAIN results.sending_user_data)
    /\ results.rcpt_domain_count = Cardinality(DOMAIN results.rcpt_domain)
    /\ results.rcpt_user_count = Cardinality(DOMAIN results.rcpt_user)

\* a connection triplet [count, total seconds, max seconds] as the claim has it
TripletOk(t) == t[1] >= 0 /\ t[2] >= 0 /\ 0 <= t[3] /\ t[3] <= t[2]
RECURSIVE HourlySeconds(_)
HourlySeconds(h) ==
    IF h < 0 THEN 0 ELSE results.smtpd_messages_per_hour[h][2] + HourlySeconds(h - 1)

\* C29: after any sequence of connect and disconnect lines, in any order of
\* their time stamps, every connection triplet (per hour, per day, per
\* domain) has count >= 0, total seconds >= 0 and 0 <= max seconds <= total
\* seconds, and connections_time is >= 0 and is the sum of the hourly total
\* seconds.
C29_AsStated ==
    /\ \A h \in Hours : TripletOk(results.smtpd_messages_per_hour[h])
    /\ \A d \in DOMAIN results.smtpd_per_day : TripletOk(results.smtpd_per_day[d])
    /\ \A d \in DOMAIN results.smtpd_per_domain : TripletOk(results.smtpd_per_domain[d])
    /\ results.connections_time >= 0
    /\ results.connections_time = HourlySeconds(HOURS_PER_DAY - 1)

(***************************************************************************)
(* MessageStats of __init__.py: dict() and copy().                         *)
(***************************************************************************)
ms_valid_keys == <<"count", "size", "defers", "delay_avg", "delay_max">>

\* as_dict(pure=True), behind dict()
ms_as_dict(ms) ==
    [size |-> ms.count, count |-> ms.size, defers |-> ms.defers,
     delay_avg |-> ms.delay_avg, delay_max |-> ms.delay_max]

\* MessageStats(mapping): _update_from_mapping on a fresh object, from the
\* i-th key of the mapping on
RECURSIVE ms_update_from(_, _, _)
ms_update_from(ms, mapping, i) ==
    IF i > Len(ms_valid_keys) THEN ms
    ELSE ms_update_from(ms_setter(ms, ms_valid_keys[i], mapping[ms_valid_keys[i]], 1),
                        mapping, i + 1)
\* __copy__: self.__class__(self.dict())
ms_copy(ms) == ms_update_from(MessageStats, ms_as_dict(ms), 1)

\* ms.copy() on the MessageStats object
MsCopy ==
    /\ stats.ncalls < MaxCalls
    /\ stats' = [stats EXCEPT !.copied = ms_copy(stats.ms),
                              !.call = [obj |-> "ms", key |-> "copy", value |-> IntVal(0)],
                              !.exc = "", !.ncalls = @ + 1]
    /\ UNCHANGED <<results, parser, raised, log_warnings, fed>>
\* <the copy>.<key> = n
MsCopySet(key, n) ==
    /\ stats.ncalls < MaxCalls
    /\ stats' = [stats EXCEPT !.copied = ms_setter(@, key, n, 1),
                              !.call = [obj |-> "copied", key |-> key, value |-> IntVal(n)],
                              !.exc = "", !.ncalls = @ + 1]
    /\ log_warnings' = log_warnings + (IF ms_refuses(n, 1) THEN 1 ELSE 0)
    /\ UNCHANGED <<results, parser, raised, fed>>

CopyKeys == {"count", "size", "delay_max"}
CopyNumbers == {0, 3, 5}
InitCopy == InitWith({DefaultOptions})
MsWrite == \E key \in CopyKeys, n \in CopyNumbers : MsSet(key, n)
MsCopyWrite == \E key \in CopyKeys, n \in CopyNumbers : MsCopySet(key, n)
NextCopy == MsWrite \/ MsCopy \/ MsCopyWrite
SpecCopy == InitCopy /\ [][NextCopy]_vars

\* C30: copy() of a MessageStats returns a new object that equals the
\* original key by key, and dict() maps every key to that key's own value;
\* changing the copy does not change the original.
C30_AsStated ==
    /\ [](\A i \in 1..Len(ms_valid_keys) :
             ms_as_dict(stats.ms)[ms_valid_keys[i]] = stats.ms[ms_valid_keys[i]])
    /\ [][stats'.ncalls # stats.ncalls /\ stats'.call.key = "copy" =>
            /\ \A i \in 1..Len(ms_valid_keys) :
                  stats'.copied[ms_valid_keys[i]] = stats.ms[ms_valid_keys[i]]
            /\ stats'.ms = stats.ms]_vars
    /\ [][stats'.ncalls # stats.ncalls /\ stats'.call.obj = "copied" =>
            stats'.ms = stats.ms]_vars

=============================================================================
